---- MODULE Spec2Model ----
(***************************************************************************)
(* Execution-warrant protocol of StegAgents: the Issuer                    *)
(* (scripts/mint_warrant.py), the channel that carries the warrant, and    *)
(* the Verifier (src/warrant_verify.py).                                   *)
(*                                                                         *)
(* JSON values are tagged records: [str |-> s], [b64 |-> bytes] (a string  *)
(* whose text is the base64 form of bytes), [num |-> n], [null |-> TRUE],  *)
(* [obj |-> f] (a dict, f a function on its keys), [arr |-> seq].          *)
(* Time is counted in ticks, TicksPerSec ticks to the second, so that the  *)
(* truncation of iso() and the sub-second clock of the verifier are both   *)
(* visible.                                                                *)
(***************************************************************************)
EXTENDS Integers, Sequences, FiniteSets, TLC

\* ------------------------------------------------------------------ bounds
TicksPerSec == 2
MaxSeconds == 2
MaxTtl == 2

MaxClock == MaxSeconds * TicksPerSec

\* Runs of the Issuer that print a warrant, in the specification of the
\* Issuer alone.
MaxMints == 2

\* Calls of verify_warrant that run at the same time on one record.
MaxThreads == 2

\* The largest max_retries call_llm is called with.
MaxRetries == 3

\* Runs of the harvester.
MaxRuns == 3

\* --------------------------------------------------------------- JSON values
Str(s) == [str |-> s]
B64(bytes) == [b64 |-> bytes]
Num(n) == [num |-> n]
Null == [null |-> TRUE]
Obj(d) == [obj |-> d]
Arr(a) == [arr |-> a]
EmptyDict == Obj(<<>>)

IsStr(v) == "str" \in DOMAIN v \/ "b64" \in DOMAIN v
IsObj(v) == "obj" \in DOMAIN v

\* Python truthiness, as used by `x or default`.
Falsy(v) == v \in {Null, Str(""), Num(0), EmptyDict, Arr(<<>>)}
Or(v, default) == IF Falsy(v) THEN default ELSE v

\* dict.get(k): None when the key is absent.
Get(d, k) == IF k \in DOMAIN d.obj THEN d.obj[k] ELSE Null
Pop(f, k) == [x \in DOMAIN f \ {k} |-> f[x]]
Put(f, k, v) == [x \in DOMAIN f \cup {k} |-> IF x = k THEN v ELSE f[x]]

\* str.lower() on the strings the model uses.
Lower(s) ==
  CASE s = "ABC123" -> "abc123"
    [] s = "ORG/REPO" -> "org/repo"
    [] s = "DEADBEEF" -> "deadbeef"
    [] s = "ED25519" -> "ed25519"
    [] s = "Local" -> "local"
    [] s = "True" -> "true"
    [] s = "LOCAL" -> "local"
    [] s = "StegID-prod" -> "stegid-prod"
    [] OTHER -> s

\* str.strip() on the environment values the model uses.
Strip(s) == IF s = " " THEN "" ELSE s

\* ------------------------------------------------------------------- time
Pad2(n) == IF n < 10 THEN "0" \o ToString(n) ELSE ToString(n)

\* The fraction of a second that r ticks are, as isoformat() prints it.
Micro(r) ==
  LET us == (r * 1000000) \div TicksPerSec
      s == ToString(us)
  IN IF r = 0 THEN ""
     ELSE "." \o (CASE us < 10 -> "00000" [] us < 100 -> "0000" [] us < 1000 -> "000"
                    [] us < 10000 -> "00" [] us < 100000 -> "0" [] OTHER -> "") \o s

IsoText(t) == "1970-01-01T00:00:" \o Pad2(t \div TicksPerSec) \o Micro(t % TicksPerSec)

\* iso() rounding to the next whole second where the code truncates.
iso_RoundsUp(dt) == IsoText(((dt + TicksPerSec - 1) \div TicksPerSec) * TicksPerSec) \o "Z"

\* iso() with replace(second=0) for replace(microsecond=0).
iso_DropsSeconds(dt) == IsoText(dt % TicksPerSec) \o "Z"
\* iso(dt): microseconds dropped, "+00:00" written as "Z".
iso(dt) == IsoText((dt \div TicksPerSec) * TicksPerSec) \o "Z"

\* The instants a timestamp of the model can denote.
MaxInstant == (MaxSeconds + MaxTtl + 1) * TicksPerSec
Instants == 0..MaxInstant

\* _parse_dt(s): a trailing "Z" reads as "+00:00"; anything fromisoformat
\* rejects raises ValueError; a non-string has no endswith (AttributeError).
ParseTable ==
  {<<IsoText(t) \o "Z", t>> : t \in Instants} \cup
  {<<IsoText(t) \o "+00:00", t>> : t \in Instants}

_parse_dt(v) ==
  IF "str" \notin DOMAIN v
  THEN IF "b64" \in DOMAIN v
       THEN [ok |-> FALSE, t |-> 0, exc |-> "Invalid isoformat string"]
       ELSE [ok |-> FALSE, t |-> 0, exc |-> "object has no attribute 'endswith'"]
  ELSE IF \E e \in ParseTable : e[1] = v.str
       THEN [ok |-> TRUE, t |-> (CHOOSE e \in ParseTable : e[1] = v.str)[2], exc |-> ""]
       ELSE [ok |-> FALSE, t |-> 0, exc |-> "Invalid isoformat string"]

\* ------------------------------------------------------------ byte strings
\* Ed25519 signature bytes, key bytes, and b"".
SigBytes(sk, msg) == [signer |-> sk, msg |-> msg]
KeyBytes(k) == [key |-> k]
EmptyBytes == [empty |-> TRUE]

\* The text base64.b64encode gives for a byte string.
B64Text(bytes) ==
  CASE "signer" \in DOMAIN bytes -> "b64(" \o bytes.signer \o ":" \o bytes.msg \o ")"
    [] "key" \in DOMAIN bytes -> "b64(" \o bytes.key \o ")"
    [] OTHER -> ""

\* base64.b64decode(s): non-alphabet characters are discarded and what is
\* left must be padded correctly (binascii.Error otherwise).
b64decode(v) ==
  CASE "b64" \in DOMAIN v -> [ok |-> TRUE, bytes |-> v.b64, exc |-> ""]
    [] v = Str("") -> [ok |-> TRUE, bytes |-> EmptyBytes, exc |-> ""]
    [] "str" \in DOMAIN v -> [ok |-> FALSE, bytes |-> EmptyBytes, exc |-> "Incorrect padding"]
    [] OTHER -> [ok |-> FALSE, bytes |-> EmptyBytes,
                 exc |-> "argument should be a bytes-like object or ASCII string"]

\* The Ed25519 key pairs of the model: the issuer's and an attacker's.
PublicOf(sk) ==
  CASE sk = "sk_issuer" -> "pk_issuer"
    [] sk = "sk_attacker" -> "pk_attacker"
    [] OTHER -> "pk_none"

\* VerifyKey(pub).verify(payload, sig_bytes): "" when the signature is good,
\* the raised exception's message otherwise.
VkVerify(pub, payload, sig_bytes) ==
  IF "key" \notin DOMAIN pub THEN "The key must be exactly 32 bytes long"
  ELSE IF "signer" \notin DOMAIN sig_bytes THEN "The signature must be exactly 64 bytes long"
  ELSE IF PublicOf(sig_bytes.signer) = pub.key /\ sig_bytes.msg = payload THEN ""
  ELSE "Signature was forged or corrupt"

\* ------------------------------------------------------- canonical encoding
\* Every key the records of the model use, in the order sort_keys puts them.
SortedKeys ==
  << "action", "actor", "alg", "bundle_sha256", "claims", "commit_sha",
     "expires_at", "host_platform", "id", "issued_at", "issuer", "module",
     "notes", "permissions_intent", "policy", "public_key_id", "ref", "repo",
     "run_id", "scope", "sig_b64", "signature", "subject", "target", "type",
     "warrant_id", "workflow" >>

RECURSIVE Join(_)
Join(parts) ==
  IF Len(parts) = 0 THEN ""
  ELSE IF Len(parts) = 1 THEN parts[1]
  ELSE parts[1] \o "," \o Join(Tail(parts))

\* The string escaping of json.dumps (ensure_ascii) on the strings the model
\* uses: a double quote is written \", everything else as it is.
Escape(s) ==
  CASE s = "out:write\",\"admin" -> "out:write\\\",\\\"admin"
    [] OTHER -> s

\* json.dumps that writes strings between quotes without escaping them.
RECURSIVE JsonDumps_Unescaped(_)
JsonDumps_Unescaped(v) ==
  CASE "str" \in DOMAIN v -> "\"" \o v.str \o "\""
    [] "b64" \in DOMAIN v -> "\"" \o B64Text(v.b64) \o "\""
    [] "num" \in DOMAIN v -> ToString(v.num)
    [] "null" \in DOMAIN v -> "null"
    [] "arr" \in DOMAIN v ->
         "[" \o Join([i \in 1..Len(v.arr) |-> JsonDumps_Unescaped(v.arr[i])]) \o "]"
    [] "obj" \in DOMAIN v ->
         LET ks == SelectSeq(SortedKeys, LAMBDA k : k \in DOMAIN v.obj)
         IN "{" \o Join([i \in 1..Len(ks) |->
                          "\"" \o ks[i] \o "\":" \o JsonDumps_Unescaped(v.obj[ks[i]])]) \o "}"

\* json.dumps that writes every array as empty.
RECURSIVE JsonDumps_NoArrayItems(_)
JsonDumps_NoArrayItems(v) ==
  CASE "str" \in DOMAIN v -> "\"" \o Escape(v.str) \o "\""
    [] "b64" \in DOMAIN v -> "\"" \o B64Text(v.b64) \o "\""
    [] "num" \in DOMAIN v -> ToString(v.num)
    [] "null" \in DOMAIN v -> "null"
    [] "arr" \in DOMAIN v -> "[]"
    [] "obj" \in DOMAIN v ->
         LET ks == SelectSeq(SortedKeys, LAMBDA k : k \in DOMAIN v.obj)
         IN "{" \o Join([i \in 1..Len(ks) |->
                          "\"" \o ks[i] \o "\":" \o JsonDumps_NoArrayItems(v.obj[ks[i]])]) \o "}"

\* json.dumps(v, separators=(",", ":"), sort_keys=True)
RECURSIVE JsonDumps(_)
JsonDumps(v) ==
  CASE "str" \in DOMAIN v -> "\"" \o Escape(v.str) \o "\""
    [] "b64" \in DOMAIN v -> "\"" \o B64Text(v.b64) \o "\""
    [] "num" \in DOMAIN v -> ToString(v.num)
    [] "null" \in DOMAIN v -> "null"
    [] "arr" \in DOMAIN v ->
         "[" \o Join([i \in 1..Len(v.arr) |-> JsonDumps(v.arr[i])]) \o "]"
    [] "obj" \in DOMAIN v ->
         LET ks == SelectSeq(SortedKeys, LAMBDA k : k \in DOMAIN v.obj)
         IN "{" \o Join([i \in 1..Len(ks) |->
                          "\"" \o ks[i] \o "\":" \o JsonDumps(v.obj[ks[i]])]) \o "}"

\* The copy dumped with its "signature" still in it.
_canonical_payload_KeepsSignature(warrant) == JsonDumps(warrant)
\* _canonical_payload(warrant): a copy without "signature", dumped.
_canonical_payload(warrant) == JsonDumps(Obj(Pop(warrant.obj, "signature")))

\* The Issuer's encoder dumping the record without removing "signature".
canonical_payload_KeepsSignature(warrant) == JsonDumps(warrant)
\* canonical_payload(warrant) of the Issuer.
canonical_payload(warrant) == JsonDumps(Obj(Pop(warrant.obj, "signature")))

\* hashlib.sha256(b).hexdigest(), taken to be collision free.
_sha256_hex(b) == "sha256(" \o b \o ")"
sha256_hex(data) == "sha256(" \o data \o ")"

\* ---------------------------------------------------------------- Verifier
\* The constructor called without payload_sha256=, which then stays None.
WarrantDecision_NoHash(ok, reason, payload_sha256, line) ==
  [raised |-> FALSE, ok |-> ok, reason |-> reason, payload_sha256 |-> Null, line |-> line]
\* WarrantDecision(ok, reason, payload_sha256=None); `line` is the line of
\* warrant_verify.py whose statement ended the try body (a return, or the
\* statement that raised).
WarrantDecision(ok, reason, payload_sha256, line) ==
  [raised |-> FALSE, ok |-> ok, reason |-> reason,
   payload_sha256 |-> payload_sha256, line |-> line]

\* An exception raised by the statement at `line`, with str(e) = msg.
Raise(msg, line) ==
  [raised |-> TRUE, ok |-> FALSE, reason |-> msg, payload_sha256 |-> Null, line |-> line]

\* repr of alg inside the f-string of line 52.
AlgText(alg) ==
  CASE "str" \in DOMAIN alg -> alg.str
    [] "null" \in DOMAIN alg -> "None"
    [] OTHER -> JsonDumps(alg)

\* (expires_at - issued_at).total_seconds() inside the f-string of line 65.
SecondsText(ticks) ==
  IF ticks < 0 THEN "-" \o ToString((0 - ticks) \div TicksPerSec) \o Micro((0 - ticks) % TicksPerSec)
  ELSE ToString(ticks \div TicksPerSec) \o
       (IF ticks % TicksPerSec = 0 THEN ".0" ELSE Micro(ticks % TicksPerSec))

\* The comparisons of lines 58, 60, 64, 69, 75 and 77; times are in ticks,
\* bundle_sha, w_repo and w_sha are already lower-cased (lines 68, 73, 74).
\* Variants with a plausible slip each: < for <=, a check a second early,
\* a check left out, >= for >, a lower() or an emptiness test forgotten.
Expired_Strict(expires_at, clock) == expires_at < clock
Expired_Early(expires_at, clock) == expires_at <= clock + TicksPerSec
IssuedInFuture_Never(issued_at, clock) == FALSE
TtlTooLong_AtLeast(ttl, max_ttl_seconds) == ttl >= max_ttl_seconds * TicksPerSec
PolicyMismatch_CaseSensitive(bundle_sha, expected_bundle_sha256) ==
  bundle_sha = "" \/ bundle_sha # expected_bundle_sha256.str
PolicyMismatch_EmptyMatches(bundle_sha, expected_bundle_sha256) ==
  bundle_sha # Lower(expected_bundle_sha256.str)
IssuedInFuture_Tolerant(issued_at, clock) == issued_at > clock + TicksPerSec
Expired_Late(expires_at, clock) == expires_at + TicksPerSec <= clock
CommitMismatch_Never(w_sha, observed_commit_sha) == FALSE

Expired(expires_at, clock) == expires_at <= clock
IssuedInFuture(issued_at, clock) == issued_at > clock
TtlTooLong(ttl, max_ttl_seconds) == ttl > max_ttl_seconds * TicksPerSec
PolicyMismatch(bundle_sha, expected_bundle_sha256) ==
  bundle_sha = "" \/ bundle_sha # Lower(expected_bundle_sha256.str)
RepoMismatch(w_repo, observed_repo) == w_repo # Lower(observed_repo)
CommitMismatch(w_sha, observed_commit_sha) == w_sha # Lower(observed_commit_sha)

\* Lines 80-90: canonical payload, base64 decoding, Ed25519 verification.
VerifySignature(warrant, sig, issuer_pubkey_b64) ==
  LET payload == _canonical_payload(warrant)
      payload_sha == _sha256_hex(payload)
      sig_b64 == Or(Get(sig, "sig_b64"), Str(""))
      sig_dec == b64decode(sig_b64)
      pub_dec == b64decode(issuer_pubkey_b64)
  IN IF ~sig_dec.ok THEN Raise(sig_dec.exc, 84)
     ELSE IF ~IsStr(issuer_pubkey_b64) THEN Raise("object has no attribute 'strip'", 86)
     ELSE IF ~pub_dec.ok THEN Raise(pub_dec.exc, 86)
     ELSE IF "key" \notin DOMAIN pub_dec.bytes
          THEN Raise(VkVerify(pub_dec.bytes, payload, sig_dec.bytes), 87)
     ELSE IF VkVerify(pub_dec.bytes, payload, sig_dec.bytes) # ""
          THEN Raise(VkVerify(pub_dec.bytes, payload, sig_dec.bytes), 88)
     ELSE WarrantDecision(TRUE, "OK", Str(payload_sha), 90)

\* Lines 72-78: identity binding, then the signature stage.
VerifyClaims(warrant, sig, issuer_pubkey_b64, observed_repo, observed_commit_sha) ==
  LET claims == Or(Get(warrant, "claims"), EmptyDict)
      repo == IF IsObj(claims) THEN Or(Get(claims, "repo"), Str("")) ELSE Null
      sha == IF IsObj(claims) THEN Or(Get(claims, "commit_sha"), Str("")) ELSE Null
  IN IF ~IsObj(claims) THEN Raise("object has no attribute 'get'", 73)
     ELSE IF "str" \notin DOMAIN repo THEN Raise("object has no attribute 'lower'", 73)
     ELSE IF "str" \notin DOMAIN sha THEN Raise("object has no attribute 'lower'", 74)
     ELSE IF "str" \notin DOMAIN observed_repo THEN Raise("object has no attribute 'lower'", 75)
     ELSE IF RepoMismatch(Lower(repo.str), observed_repo.str)
          THEN WarrantDecision(FALSE, "Repo claim mismatch.", Null, 76)
     ELSE IF "str" \notin DOMAIN observed_commit_sha
          THEN Raise("object has no attribute 'lower'", 77)
     ELSE IF CommitMismatch(Lower(sha.str), observed_commit_sha.str)
          THEN WarrantDecision(FALSE, "Commit claim mismatch.", Null, 78)
     ELSE VerifySignature(warrant, sig, issuer_pubkey_b64)

\* Lines 67-70: policy pinning, then the later stages.
VerifyPolicy(warrant, sig, issuer_pubkey_b64, expected_bundle_sha256, observed_repo, observed_commit_sha) ==
  LET policy == Or(Get(warrant, "policy"), EmptyDict)
      bundle == IF IsObj(policy) THEN Or(Get(policy, "bundle_sha256"), Str("")) ELSE Null
  IN IF ~IsObj(policy) THEN Raise("object has no attribute 'get'", 68)
     ELSE IF "str" \notin DOMAIN bundle THEN Raise("object has no attribute 'lower'", 68)
     ELSE IF Lower(bundle.str) # "" /\ "str" \notin DOMAIN expected_bundle_sha256
          THEN Raise("object has no attribute 'lower'", 69)
     ELSE IF PolicyMismatch(Lower(bundle.str), expected_bundle_sha256)
          THEN WarrantDecision(FALSE, "Policy bundle hash mismatch (pinning failed).", Null, 70)
     ELSE VerifyClaims(warrant, sig, issuer_pubkey_b64, observed_repo, observed_commit_sha)

\* Lines 54-65 with the clock read a second time, a tick later, for the
\* issued-in-future check.
VerifyTimes_ReadsClockTwice(warrant, sig, issuer_pubkey_b64, expected_bundle_sha256, observed_repo, observed_commit_sha, max_ttl_seconds, clock) ==
  IF "issued_at" \notin DOMAIN warrant.obj THEN Raise("'issued_at'", 54)
  ELSE IF ~_parse_dt(warrant.obj.issued_at).ok
       THEN Raise(_parse_dt(warrant.obj.issued_at).exc, 54)
  ELSE IF "expires_at" \notin DOMAIN warrant.obj THEN Raise("'expires_at'", 55)
  ELSE IF ~_parse_dt(warrant.obj.expires_at).ok
       THEN Raise(_parse_dt(warrant.obj.expires_at).exc, 55)
  ELSE LET issued_at == _parse_dt(warrant.obj.issued_at).t
           expires_at == _parse_dt(warrant.obj.expires_at).t
           ttl == expires_at - issued_at
       IN IF Expired(expires_at, clock)
          THEN WarrantDecision(FALSE, "Warrant expired.", Null, 59)
          ELSE IF IssuedInFuture(issued_at, clock + 1)
          THEN WarrantDecision(FALSE, "Warrant issued in the future (clock skew).", Null, 61)
          ELSE IF TtlTooLong(ttl, max_ttl_seconds)
          THEN WarrantDecision(FALSE,
                 "TTL too long: " \o SecondsText(ttl) \o "s > "
                   \o ToString(max_ttl_seconds) \o "s", Null, 65)
          ELSE VerifyPolicy(warrant, sig, issuer_pubkey_b64, expected_bundle_sha256,
                            observed_repo, observed_commit_sha)
\* Lines 54-65: the timestamps, the one clock value `clock`, the TTL.
VerifyTimes(warrant, sig, issuer_pubkey_b64, expected_bundle_sha256, observed_repo, observed_commit_sha, max_ttl_seconds, clock) ==
  IF "issued_at" \notin DOMAIN warrant.obj THEN Raise("'issued_at'", 54)
  ELSE IF ~_parse_dt(warrant.obj.issued_at).ok
       THEN Raise(_parse_dt(warrant.obj.issued_at).exc, 54)
  ELSE IF "expires_at" \notin DOMAIN warrant.obj THEN Raise("'expires_at'", 55)
  ELSE IF ~_parse_dt(warrant.obj.expires_at).ok
       THEN Raise(_parse_dt(warrant.obj.expires_at).exc, 55)
  ELSE LET issued_at == _parse_dt(warrant.obj.issued_at).t
           expires_at == _parse_dt(warrant.obj.expires_at).t
           ttl == expires_at - issued_at
       IN IF Expired(expires_at, clock)
          THEN WarrantDecision(FALSE, "Warrant expired.", Null, 59)
          ELSE IF IssuedInFuture(issued_at, clock)
          THEN WarrantDecision(FALSE, "Warrant issued in the future (clock skew).", Null, 61)
          ELSE IF TtlTooLong(ttl, max_ttl_seconds)
          THEN WarrantDecision(FALSE,
                 "TTL too long: " \o SecondsText(ttl) \o "s > "
                   \o ToString(max_ttl_seconds) \o "s", Null, 65)
          ELSE VerifyPolicy(warrant, sig, issuer_pubkey_b64, expected_bundle_sha256,
                            observed_repo, observed_commit_sha)

\* Lines 49-90: the body of the try block.
VerifyBody(warrant, issuer_pubkey_b64, expected_bundle_sha256, observed_repo, observed_commit_sha, max_ttl_seconds, clock) ==
  IF ~IsObj(warrant) THEN Raise("object has no attribute 'get'", 49)
  ELSE LET sig == Or(Get(warrant, "signature"), EmptyDict)
       IN IF ~IsObj(sig) THEN Raise("object has no attribute 'get'", 50)
          ELSE IF Get(sig, "alg") # Str("ed25519")
          THEN WarrantDecision(FALSE,
                 "Unsupported signature alg: " \o AlgText(Get(sig, "alg")), Null, 52)
          ELSE VerifyTimes(warrant, sig, issuer_pubkey_b64, expected_bundle_sha256,
                           observed_repo, observed_commit_sha, max_ttl_seconds, clock)

\* The handler catching nothing: what the body raised leaves the function.
Except_Missing(r) ==
  [escaped |-> r.raised, ok |-> r.ok, reason |-> r.reason,
   payload_sha256 |-> r.payload_sha256, line |-> r.line]

\* Lines 91-92: `except Exception as e` turns what the body raised into a
\* negative decision. `escaped` says an exception left verify_warrant.
Except(r) ==
  IF r.raised
  THEN [escaped |-> FALSE, ok |-> FALSE, reason |-> "Verification error: " \o r.reason,
        payload_sha256 |-> Null, line |-> r.line]
  ELSE [escaped |-> FALSE, ok |-> r.ok, reason |-> r.reason,
        payload_sha256 |-> r.payload_sha256, line |-> r.line]

\* verify_warrant(...), with the value _utc_now() returns at line 56.
verify_warrant(warrant, issuer_pubkey_b64, expected_bundle_sha256, observed_repo, observed_commit_sha, max_ttl_seconds, clock) ==
  Except(VerifyBody(warrant, issuer_pubkey_b64, expected_bundle_sha256,
                    observed_repo, observed_commit_sha, max_ttl_seconds, clock))

\* ------------------------------------------------------------------ Issuer
\* os.environ.get(k, d)
EnvGet(env, k, d) == IF k \in DOMAIN env THEN env[k] ELSE d

\* int(s) for the TTL strings of the model; ValueError otherwise.
IntTable == {<<ToString(n), n>> : n \in 0..MaxTtl}
IsInt(s) == \E e \in IntTable : e[1] = s
int(s) == (CHOOSE e \in IntTable : e[1] = s)[2]

\* base64.b64decode(priv_b64) followed by SigningKey(priv).
PrivateKeys == {"sk_issuer", "sk_attacker"}
IsSigningKey(s) == \E k \in PrivateKeys : B64Text(KeyBytes(k)) = s
SigningKey(s) == CHOOSE k \in PrivateKeys : B64Text(KeyBytes(k)) = s

\* What one run of main() leaves behind: how it exited, and on success the
\* warrant it printed and the payload hash of its last line.
MintExit(exit) == [exit |-> exit, warrant |-> Null, ttl_seconds |-> 0, payload_sha256 |-> ""]

\* The record assembled at lines 58-86, before it is signed.
UnsignedWarrant(env, t, agent, bundle_sha256, repo, commit_sha, ttl_seconds) ==
  LET host_platform == Strip(EnvGet(env, "HOST_PLATFORM", "github"))
      run_id == Strip(EnvGet(env, "GITHUB_RUN_ID", ""))
      workflow == Strip(EnvGet(env, "GITHUB_WORKFLOW", ""))
      issued_at == t
      expires_at == issued_at + ttl_seconds * TicksPerSec
  IN Obj([
       warrant_id |-> Str(EnvGet(env, "WARRANT_ID",
           ToString(issued_at \div TicksPerSec) \o "-"
             \o (IF run_id = "" THEN "local" ELSE run_id) \o "-" \o agent)),
       issued_at |-> Str(iso(issued_at)),
       expires_at |-> Str(iso(expires_at)),
       issuer |-> Str(Strip(env["WARRANT_ISSUER"])),
       subject |-> Obj([
         type |-> Str(IF host_platform = "github" THEN "workflow_run" ELSE "execution"),
         id |-> Str(host_platform \o ":" \o repo \o ":" \o workflow \o ":" \o run_id),
         notes |-> Str("Ephemeral execution warrant")]),
       scope |-> Obj([
         action |-> Str("run_agent"),
         target |-> Str(agent),
         module |-> Str(Strip(EnvGet(env, "WARRANT_MODULE", "StegVerse-Labs/StegAgents"))),
         permissions_intent |-> Arr(<<Str("out:write")>>)]),
       policy |-> Obj([bundle_sha256 |-> Str(bundle_sha256)]),
       claims |-> Obj([
         host_platform |-> Str(host_platform),
         repo |-> Str(repo),
         ref |-> Str(Strip(EnvGet(env, "GITHUB_REF", ""))),
         commit_sha |-> Str(commit_sha),
         run_id |-> Str(run_id),
         workflow |-> Str(workflow),
         actor |-> Str(Strip(EnvGet(env, "GITHUB_ACTOR", "")))])])

\* main() run in environment env when utc_now() returns t.
main(env, t) ==
  LET agent == Strip(EnvGet(env, "AGENT_NAME", ""))
      repo == IF Strip(EnvGet(env, "GITHUB_REPOSITORY", "")) # ""
              THEN Strip(EnvGet(env, "GITHUB_REPOSITORY", ""))
              ELSE Strip(EnvGet(env, "REPO", ""))
      commit_sha == IF Strip(EnvGet(env, "GITHUB_SHA", "")) # ""
                    THEN Strip(EnvGet(env, "GITHUB_SHA", ""))
                    ELSE Strip(EnvGet(env, "COMMIT_SHA", ""))
      ttl_text == Strip(EnvGet(env, "WARRANT_TTL_SECONDS", "600"))
  IN IF {"WARRANT_ISSUER", "WARRANT_PUBLIC_KEY_ID", "WARRANT_ED25519_PRIVATE_B64"}
          \ DOMAIN env # {}
     THEN MintExit("KeyError")
     ELSE IF agent = "" THEN MintExit("SystemExit")
     ELSE IF "TV_POLICY_BUNDLE_SHA256" \notin DOMAIN env THEN MintExit("KeyError")
     ELSE IF repo = "" \/ commit_sha = "" THEN MintExit("SystemExit")
     ELSE IF ~IsInt(ttl_text) THEN MintExit("ValueError")
     ELSE IF ~IsSigningKey(Strip(env["WARRANT_ED25519_PRIVATE_B64"]))
     THEN MintExit("ValueError")
     ELSE LET bundle_sha256 == Strip(env["TV_POLICY_BUNDLE_SHA256"])
              ttl_seconds == int(ttl_text)
              unsigned == UnsignedWarrant(env, t, agent, bundle_sha256, repo, commit_sha,
                                          ttl_seconds)
              payload == canonical_payload(unsigned)
              sk == SigningKey(Strip(env["WARRANT_ED25519_PRIVATE_B64"]))
              signature == Obj([
                alg |-> Str("ed25519"),
                public_key_id |-> Str(Strip(env["WARRANT_PUBLIC_KEY_ID"])),
                sig_b64 |-> B64(SigBytes(sk, payload))])
          IN [exit |-> "ok",
              warrant |-> Obj(Put(unsigned.obj, "signature", signature)),
              ttl_seconds |-> ttl_seconds,
              payload_sha256 |-> sha256_hex(payload)]

\* ------------------------------------------------------------ the system
VARIABLES
  now,       \* the UTC clock, in ticks
  mint,      \* what the Issuer's last run left behind
  warrant,   \* the warrant record on its way to the Verifier (Null: none yet)
  tamper,    \* the path changed in the record since it was minted (<<>>: none)
  call,      \* the arguments and clock value of the verify_warrant call just made
  decision,  \* what that call returned
  emitted,   \* the warrant_id of every warrant the Issuer has printed, in order
  threads,   \* the verify_warrant calls running concurrently on the record
  gate,      \* the last run of run_agent
  rcpt,      \* the last call of receipt_verify.verify_receipt
  llm,       \* the call_llm call in progress
  harvest    \* the harvester: its files and the run in progress

\* The variables of the programs beside the warrant protocol.
others == <<threads, gate, rcpt, llm, harvest>>

vars == <<now, mint, warrant, tamper, call, decision, emitted, threads, gate, rcpt, llm, harvest>>

NoCall == [made |-> FALSE]
NoDecision == [escaped |-> FALSE, ok |-> FALSE, reason |-> "", payload_sha256 |-> Null,
               line |-> 0]

\* The environments main() is run in.
FullEnvs ==
  [WARRANT_ISSUER : {"stegverse-ci"},
   WARRANT_PUBLIC_KEY_ID : {"k1"},
   WARRANT_ED25519_PRIVATE_B64 : {B64Text(KeyBytes("sk_issuer"))},
   AGENT_NAME : {"GrantFinder-001", " "},
   TV_POLICY_BUNDLE_SHA256 : {"abc123", ""},
   GITHUB_REPOSITORY : {"org/repo", ""},
   GITHUB_SHA : {"deadbeef", ""},
   GITHUB_REF : {"refs/heads/main"},
   GITHUB_RUN_ID : {"42"},
   GITHUB_WORKFLOW : {"agents"},
   GITHUB_ACTOR : {"alice"},
   WARRANT_TTL_SECONDS : {ToString(n) : n \in 0..MaxTtl} \cup {"ten minutes"},
   WARRANT_ID : {"w-1"}]

\* WARRANT_ID is unset but for the longest TTL, and the bundle hash is empty
\* only with the shortest positive TTL.
Envs ==
  {Pop(e, "WARRANT_ID") : e \in {f \in FullEnvs :
      f.TV_POLICY_BUNDLE_SHA256 = "" => f.WARRANT_TTL_SECONDS = "1"}}
    \cup {e \in FullEnvs : /\ e.WARRANT_TTL_SECONDS = ToString(MaxTtl)
                            /\ e.TV_POLICY_BUNDLE_SHA256 # ""}
    \cup {Pop(e, k) : e \in {f \in FullEnvs : f.WARRANT_TTL_SECONDS = "1"},
                      k \in {"TV_POLICY_BUNDLE_SHA256", "WARRANT_ED25519_PRIVATE_B64"}}

\* The arguments verify_warrant is called with.
PubKeys == {B64(KeyBytes("pk_issuer")), B64(KeyBytes("pk_attacker")), Str("not-base64")}
BundleHashes == {Str("abc123"), Str("ABC123"), Str("def456"), Str("")}
Repos == {Str("org/repo"), Str("ORG/REPO"), Str("evil/repo")}
Commits == {Str("deadbeef"), Str("DEADBEEF"), Str("cafef00d")}
MaxTtlChoices == {MaxTtl - 1}

\* Every key with every way the three compared values match or differ, and the
\* issuer's key with every respelling of the matching values in upper case.
CallArguments ==
  [key : PubKeys,
   bundle : {Str("abc123"), Str("def456"), Str("")},
   repo : {Str("org/repo"), Str("evil/repo")},
   commit : {Str("deadbeef"), Str("cafef00d")},
   max_ttl : MaxTtlChoices]
  \cup
  [key : {B64(KeyBytes("pk_issuer"))},
   bundle : {Str("abc123"), Str("ABC123")},
   repo : {Str("org/repo"), Str("ORG/REPO")},
   commit : {Str("deadbeef"), Str("DEADBEEF")},
   max_ttl : MaxTtlChoices]

\* ------------------------------------------------------ changes in transit
Absent == [absent |-> TRUE]

\* The timestamp one second later, one second earlier and one tick later
\* than the parseable timestamp v, as ISO strings.
Shifted(v) ==
  IF ~_parse_dt(v).ok THEN {}
  ELSE LET t == _parse_dt(v).t
       IN {Str(IsoText(u) \o "Z") : u \in {t + TicksPerSec, t - TicksPerSec} \cap Instants}
            \cup {Str(IsoText(u) \o "+00:00") : u \in {t + 1} \cap Instants}

TimeValues(w, k) ==
  (IF k \in DOMAIN w.obj THEN Shifted(w.obj[k]) ELSE {})
    \cup {Num(0), Str("yesterday"), Absent}

\* The single changes the channel can make to the record w: <<path, new>>.
Mutations(w) ==
  IF ~IsObj(w) THEN {}
  ELSE
    {<<<<>>, v>> : v \in {Null, Str("junk")}}
    \cup {<<<<"issued_at">>, v>> : v \in TimeValues(w, "issued_at")}
    \cup {<<<<"expires_at">>, v>> : v \in TimeValues(w, "expires_at")}
    \cup {<<<<"warrant_id">>, Str("w-other")>>, <<<<"issuer">>, Str("evil-issuer")>>}
    \cup {<<<<"subject", "id">>, Str("github:evil/repo:agents:42")>>,
          <<<<"subject", "type">>, Str("execution")>>,
          <<<<"subject", "notes">>, Str("Permanent execution warrant")>>}
    \cup {<<<<"scope", "action">>, Str("delete_repo")>>,
          <<<<"scope", "target">>, Str("Other-Agent")>>,
          <<<<"scope", "module">>, Str("Other/Module")>>,
          <<<<"scope", "permissions_intent">>, Arr(<<Str("out:write"), Str("admin")>>)>>,
          <<<<"scope", "permissions_intent">>, Arr(<<Str("admin"), Str("out:write")>>)>>,
          <<<<"scope", "permissions_intent">>, Arr(<<Str("out:write\",\"admin")>>)>>,
          <<<<"scope", "permissions_intent">>, Arr(<<>>)>>}
    \cup {<<<<"policy">>, v>> : v \in {Null, Str("x"), Absent}}
    \cup {<<<<"policy", "bundle_sha256">>, v>> :
            v \in {Str("ABC123"), Str("def456"), Str(""), Num(1), Absent}}
    \cup {<<<<"claims">>, v>> : v \in {Str("x"), Absent}}
    \cup {<<<<"claims", "repo">>, v>> : v \in {Str("ORG/REPO"), Str("evil/repo"), Absent}}
    \cup {<<<<"claims", "commit_sha">>, v>> :
            v \in {Str("DEADBEEF"), Str("cafef00d"), Absent}}
    \cup {<<<<"claims", "actor">>, Str("mallory")>>,
          <<<<"claims", "host_platform">>, Str("gitlab")>>,
          <<<<"claims", "ref">>, Str("refs/heads/evil")>>,
          <<<<"claims", "run_id">>, Str("43")>>,
          <<<<"claims", "workflow">>, Str("other")>>}
    \cup {<<<<"signature">>, v>> : v \in {Str("x"), Absent}}
    \cup {<<<<"signature", "alg">>, v>> : v \in {Str("rsa"), Str("ED25519"), Absent}}
    \cup {<<<<"signature", "public_key_id">>, Str("k2")>>}
    \cup {<<<<"signature", "sig_b64">>, v>> :
            v \in {Str("not-base64"), Str(""), Num(7), Absent,
                   B64(SigBytes("sk_attacker", _canonical_payload(w)))}}

Applicable(w, path) ==
  /\ IsObj(w)
  /\ Len(path) = 2 => path[1] \in DOMAIN w.obj /\ IsObj(w.obj[path[1]])

SetKey(f, k, v) == IF v = Absent THEN Pop(f, k) ELSE Put(f, k, v)

Mutate(w, path, v) ==
  IF Len(path) = 0 THEN v
  ELSE IF Len(path) = 1 THEN Obj(SetKey(w.obj, path[1], v))
  ELSE Obj(Put(w.obj, path[1], Obj(SetKey(w.obj[path[1]].obj, path[2], v))))

\* The other programs before they have run.
Threads == 1..MaxThreads
NoThreads == [t \in Threads |-> [pc |-> "idle"]]
NoRun == [pc |-> "idle"]
NoReceiptCall == [pc |-> "idle"]
NoLlmCall == [pc |-> "idle"]

\* The files that come to research/inbox, in the order sorted() gives them.
InboxOrder == <<"a.md", "b.md", "c.md">>
Files == {InboxOrder[i] : i \in 1..Len(InboxOrder)}

\* The harvester before its first run: an empty inbox, no state file, no
\* fragments. written[f] is the set of runs that appended fragments of f.
NoHarvestRun == [api |-> <<>>, raised |-> "", new_files |-> <<>>]
EmptyHarvest ==
  [inbox |-> {}, processed |-> {}, written |-> [f \in Files |-> {}], runs |-> 0,
   last |-> NoHarvestRun]

\* ----------------------------------------------------------------- actions
Init ==
  /\ now = 0
  /\ mint = MintExit("none")
  /\ warrant = Null
  /\ tamper = <<>>
  /\ call = NoCall
  /\ decision = NoDecision
  /\ emitted = <<>>
  /\ threads = NoThreads
  /\ gate = NoRun
  /\ rcpt = NoReceiptCall
  /\ llm = NoLlmCall
  /\ harvest = EmptyHarvest

\* Time passes.
Tick ==
  /\ ~call.made
  /\ now < MaxClock
  /\ now' = now + 1
  /\ call' = NoCall
  /\ decision' = NoDecision
  /\ UNCHANGED <<mint, warrant, tamper, emitted>>
  /\ UNCHANGED others

\* Line 102: the output so far, with the warrant_id of what run m printed.
Printed(out, m) ==
  IF m.exit = "ok" THEN Append(out, m.warrant.obj.warrant_id) ELSE out

\* One run of the Issuer; what it prints is handed to the channel.
Mint ==
  /\ ~call.made
  /\ mint.exit # "ok"
  /\ \E env \in Envs :
       /\ mint' = main(env, now)
       /\ warrant' = main(env, now).warrant
       /\ emitted' = Printed(emitted, main(env, now))
  /\ tamper' = <<>>
  /\ call' = NoCall
  /\ decision' = NoDecision
  /\ UNCHANGED now
  /\ UNCHANGED others

\* A run of the Issuer whatever the earlier runs did: the same job run again,
\* or another job of the same workflow run.
Remint ==
  /\ ~call.made
  /\ Len(emitted) < MaxMints
  /\ \E env \in Envs :
       /\ mint' = main(env, now)
       /\ warrant' = main(env, now).warrant
       /\ emitted' = Printed(emitted, main(env, now))
  /\ tamper' = <<>>
  /\ call' = NoCall
  /\ decision' = NoDecision
  /\ UNCHANGED now
  /\ UNCHANGED others

\* The channel changes one field of the record.
Tamper ==
  /\ ~call.made
  /\ tamper = <<>>
  /\ \E m \in Mutations(warrant) :
       /\ Applicable(warrant, m[1])
       /\ Mutate(warrant, m[1], m[2]) # warrant
       /\ warrant' = Mutate(warrant, m[1], m[2])
       /\ tamper' = <<m[1]>>
  /\ call' = NoCall
  /\ decision' = NoDecision
  /\ UNCHANGED <<now, mint, emitted>>
  /\ UNCHANGED others

\* One call of verify_warrant on the record as it arrived.
Verify ==
  /\ ~call.made
  /\ \E a \in CallArguments :
       /\ call' = [made |-> TRUE, warrant |-> warrant, issuer_pubkey_b64 |-> a.key,
                   expected_bundle_sha256 |-> a.bundle, observed_repo |-> a.repo,
                   observed_commit_sha |-> a.commit, max_ttl_seconds |-> a.max_ttl,
                   now |-> now]
       /\ decision' = verify_warrant(warrant, a.key, a.bundle, a.repo, a.commit,
                                     a.max_ttl, now)
  /\ UNCHANGED <<now, mint, warrant, tamper, emitted>>
  /\ UNCHANGED others

\* The caller has used the Decision; it is not kept.
Discard ==
  /\ call.made
  /\ call' = NoCall
  /\ decision' = NoDecision
  /\ UNCHANGED <<now, mint, warrant, tamper, emitted>>
  /\ UNCHANGED others

Next == Tick \/ Mint \/ Tamper \/ Verify \/ Discard

Spec == Init /\ [][Next]_vars

\* The Issuer and the channel alone: records are minted and changed, and only
\* the canonical encoder looks at them.
NextEncoder == Mint \/ Tamper

SpecEncoder == Init /\ [][NextEncoder]_vars

\* The Issuer alone, run several times as time passes.
NextIssuer == Tick \/ Remint

SpecIssuer == Init /\ [][NextIssuer]_vars

\* ------------------------------------------------- vocabulary of the claims
\* The value at a key of a record, Absent when there is none.
Field1(w, k) == IF IsObj(w) /\ k \in DOMAIN w.obj THEN w.obj[k] ELSE Absent
Field2(w, k1, k2) == Field1(Field1(w, k1), k2)

IsText(v) == "str" \in DOMAIN v
IsTime(v) == IsText(v) /\ _parse_dt(v).ok
IssuedAt(w) == _parse_dt(Field1(w, "issued_at")).t
ExpiresAt(w) == _parse_dt(Field1(w, "expires_at")).t

AlgOk(w) == Field2(w, "signature", "alg") = Str("ed25519")
TimesOk(w) == IsTime(Field1(w, "issued_at")) /\ IsTime(Field1(w, "expires_at"))
EqualIgnoringCase(v, x) == IsText(v) /\ IsText(x) /\ Lower(v.str) = Lower(x.str)
SignatureOk(w, key) ==
  /\ "b64" \in DOMAIN Field2(w, "signature", "sig_b64")
  /\ "b64" \in DOMAIN key
  /\ VkVerify(key.b64, _canonical_payload(w), Field2(w, "signature", "sig_b64").b64) = ""

IssuerKey == B64(KeyBytes(PublicOf("sk_issuer")))
BadSignature == "Verification error: Signature was forged or corrupt"

\* C1: a call returns ok=true only if, at the one clock value it read, the
\* algorithm is ed25519, issued_at <= now < expires_at, the lifetime is at
\* most max_ttl_seconds, the bundle hash is non-empty and equals the expected
\* one ignoring case, repo and commit equal the observed ones ignoring case,
\* and the signature verifies over the canonical encoding under the key.
C1_OkOnlyIfAllChecksHold ==
  (call.made /\ decision.ok) =>
    /\ AlgOk(call.warrant)
    /\ TimesOk(call.warrant)
    /\ IssuedAt(call.warrant) <= call.now
    /\ call.now < ExpiresAt(call.warrant)
    /\ ExpiresAt(call.warrant) - IssuedAt(call.warrant)
         <= call.max_ttl_seconds * TicksPerSec
    /\ Field2(call.warrant, "policy", "bundle_sha256") # Str("")
    /\ EqualIgnoringCase(Field2(call.warrant, "policy", "bundle_sha256"),
                         call.expected_bundle_sha256)
    /\ EqualIgnoringCase(Field2(call.warrant, "claims", "repo"), call.observed_repo)
    /\ EqualIgnoringCase(Field2(call.warrant, "claims", "commit_sha"),
                         call.observed_commit_sha)
    /\ SignatureOk(call.warrant, call.issuer_pubkey_b64)

\* A call that returned ok=true, with arguments in another letter case than
\* the warrant's fields.
C1_Witness ==
  /\ call.made /\ decision.ok /\ decision.reason = "OK"
  /\ call.expected_bundle_sha256 = Str("ABC123")
  /\ call.observed_repo = Str("ORG/REPO")

\* The warrant handed to the call is the one the Issuer printed, unchanged.
Intact == call.made /\ mint.exit = "ok" /\ call.warrant = mint.warrant

MintedBundle == Field2(mint.warrant, "policy", "bundle_sha256")
MintedRepo == Field2(mint.warrant, "claims", "repo")
MintedCommit == Field2(mint.warrant, "claims", "commit_sha")

\* The call's arguments are the issuer's public key and the bundle hash, repo
\* and commit the warrant was minted with.
MatchingArguments ==
  /\ call.issuer_pubkey_b64 = IssuerKey
  /\ call.expected_bundle_sha256 = MintedBundle
  /\ call.observed_repo = MintedRepo
  /\ call.observed_commit_sha = MintedCommit

\* C2: a warrant minted with valid (non-empty) inputs and ttl <= max_ttl_seconds,
\* verified unchanged before it expires with the issuer's public key and the
\* bundle hash, repo and commit it was minted with, is accepted with reason OK.
C2_RoundTrip ==
  ( /\ Intact
    /\ MintedBundle # Str("")
    /\ mint.ttl_seconds <= call.max_ttl_seconds
    /\ call.now < ExpiresAt(mint.warrant)
    /\ MatchingArguments )
  => (decision.ok /\ decision.reason = "OK")

\* A minted warrant with the longest allowed lifetime, accepted in its last tick.
C2_Witness ==
  /\ Intact /\ MatchingArguments
  /\ mint.ttl_seconds = call.max_ttl_seconds
  /\ call.now = ExpiresAt(mint.warrant) - 1
  /\ decision.ok /\ decision.reason = "OK"

\* Exactly one field other than the signature was changed after minting, and
\* everything else about the call matches the minted warrant.
OneSignedFieldChanged ==
  /\ call.made /\ mint.exit = "ok"
  /\ Len(tamper) = 1 /\ tamper[1] # <<>> /\ tamper[1][1] # "signature"
  /\ MintedBundle # Str("")
  /\ MatchingArguments
  /\ mint.ttl_seconds <= call.max_ttl_seconds
  /\ IssuedAt(mint.warrant) <= call.now
  /\ call.now < ExpiresAt(mint.warrant)

\* The stages before the signature stage all pass for warrant w in call c.
EarlierStagesPass(w, c) ==
  /\ AlgOk(w) /\ TimesOk(w)
  /\ IssuedAt(w) <= c.now /\ c.now < ExpiresAt(w)
  /\ ExpiresAt(w) - IssuedAt(w) <= c.max_ttl_seconds * TicksPerSec
  /\ Field2(w, "policy", "bundle_sha256") # Str("")
  /\ EqualIgnoringCase(Field2(w, "policy", "bundle_sha256"), c.expected_bundle_sha256)
  /\ EqualIgnoringCase(Field2(w, "claims", "repo"), c.observed_repo)
  /\ EqualIgnoringCase(Field2(w, "claims", "commit_sha"), c.observed_commit_sha)

\* C3 as stated: after any single change of a signed field, verification
\* fails and the failure reported is the bad-signature failure.
C3_TamperIsBadSignature ==
  OneSignedFieldChanged => (~decision.ok /\ decision.reason = BadSignature)

\* C3 as amended: after any single change of a signed field, verification
\* never returns ok=true; it reports the bad-signature failure when the
\* changed record still passes the stages before the signature stage, and
\* otherwise the failure of one of those earlier stages.
C3_TamperNeverAccepted ==
  OneSignedFieldChanged =>
    /\ ~decision.ok
    /\ EarlierStagesPass(call.warrant, call) => decision.reason = BadSignature
    /\ ~EarlierStagesPass(call.warrant, call) => decision.line < 80

\* A changed scope.target, caught by the signature stage.
C3_Witness ==
  /\ OneSignedFieldChanged
  /\ tamper[1] = <<"scope", "target">>
  /\ ~decision.ok /\ decision.reason = BadSignature

\* An input of one of the malformed kinds: not a mapping, a timestamp missing
\* or unparseable, signature or key not base64, a field of the wrong type.
Malformed(w, key) ==
  \/ ~IsObj(w)
  \/ ~IsTime(Field1(w, "issued_at"))
  \/ ~IsTime(Field1(w, "expires_at"))
  \/ "b64" \notin DOMAIN Field2(w, "signature", "sig_b64")
  \/ "b64" \notin DOMAIN key
  \/ ~IsObj(Field1(w, "signature"))
  \/ ~IsObj(Field1(w, "policy"))
  \/ ~IsObj(Field1(w, "claims"))
  \/ ~IsText(Field2(w, "policy", "bundle_sha256"))

\* C4: no exception leaves verify_warrant, and every malformed input gets a
\* Decision with ok=false.
C4_FailClosed ==
  call.made =>
    /\ ~decision.escaped
    /\ Malformed(call.warrant, call.issuer_pubkey_b64) => ~decision.ok

\* A warrant that is no mapping, turned into a negative Decision.
C4_Witness ==
  /\ call.made /\ ~IsObj(call.warrant)
  /\ ~decision.escaped /\ ~decision.ok
  /\ decision.reason = "Verification error: object has no attribute 'get'"

\* Every field the stages read has the type the stage expects, so that each
\* check below has a value to judge.
Typed(w, key) ==
  /\ IsObj(w) /\ IsObj(Field1(w, "signature")) /\ TimesOk(w)
  /\ IsObj(Field1(w, "policy")) /\ IsObj(Field1(w, "claims"))
  /\ Field2(w, "policy", "bundle_sha256") = Absent \/ IsText(Field2(w, "policy", "bundle_sha256"))
  /\ Field2(w, "claims", "repo") = Absent \/ IsText(Field2(w, "claims", "repo"))
  /\ Field2(w, "claims", "commit_sha") = Absent \/ IsText(Field2(w, "claims", "commit_sha"))

\* The line at which the first check that fails, in the fixed order, returns
\* (the signature stage raises at one of lines 84-88); 90 when none fails.
FirstFailingStage(w, c) ==
  IF ~AlgOk(w) THEN {52}
  ELSE IF ExpiresAt(w) <= c.now THEN {59}
  ELSE IF IssuedAt(w) > c.now THEN {61}
  ELSE IF ExpiresAt(w) - IssuedAt(w) > c.max_ttl_seconds * TicksPerSec THEN {65}
  ELSE IF \/ Field2(w, "policy", "bundle_sha256") \in {Absent, Str("")}
          \/ ~EqualIgnoringCase(Field2(w, "policy", "bundle_sha256"), c.expected_bundle_sha256)
       THEN {70}
  ELSE IF ~EqualIgnoringCase(Field2(w, "claims", "repo"), c.observed_repo) THEN {76}
  ELSE IF ~EqualIgnoringCase(Field2(w, "claims", "commit_sha"), c.observed_commit_sha) THEN {78}
  ELSE IF ~SignatureOk(w, c.issuer_pubkey_b64) THEN {84, 86, 87, 88}
  ELSE {90}

\* The checks of the stages after the algorithm check that fail for w in c.
FailingChecks(w, c) ==
  {n \in {59, 61, 65, 70, 76, 78, 88} :
     \/ n = 59 /\ ExpiresAt(w) <= c.now
     \/ n = 61 /\ IssuedAt(w) > c.now
     \/ n = 65 /\ ExpiresAt(w) - IssuedAt(w) > c.max_ttl_seconds * TicksPerSec
     \/ n = 70 /\ ~EqualIgnoringCase(Field2(w, "policy", "bundle_sha256"), c.expected_bundle_sha256)
     \/ n = 76 /\ ~EqualIgnoringCase(Field2(w, "claims", "repo"), c.observed_repo)
     \/ n = 78 /\ ~EqualIgnoringCase(Field2(w, "claims", "commit_sha"), c.observed_commit_sha)
     \/ n = 88 /\ ~SignatureOk(w, c.issuer_pubkey_b64)}

\* The fixed reason of the stage that returns at a line ("" where the reason
\* quotes a value of the call).
StageReason(n) ==
  CASE n = 59 -> "Warrant expired."
    [] n = 61 -> "Warrant issued in the future (clock skew)."
    [] n = 70 -> "Policy bundle hash mismatch (pinning failed)."
    [] n = 76 -> "Repo claim mismatch."
    [] n = 78 -> "Commit claim mismatch."
    [] n = 90 -> "OK"
    [] OTHER -> ""

\* C5: the call ends at the first stage that fails, in the order algorithm,
\* expired, issued in future, TTL, policy hash, repo, commit, signature, and
\* reports that stage's reason.
C5_FirstFailingStageReported ==
  (call.made /\ Typed(call.warrant, call.issuer_pubkey_b64)) =>
    /\ decision.line \in FirstFailingStage(call.warrant, call)
    /\ StageReason(decision.line) # "" => decision.reason = StageReason(decision.line)
    /\ decision.ok <=> decision.line = 90

\* A warrant that is issued in the future, lives too long, and is checked
\* against another bundle hash, repo, commit and key: the first of these
\* failures is the one reported.
C5_Witness ==
  /\ call.made /\ Typed(call.warrant, call.issuer_pubkey_b64)
  /\ AlgOk(call.warrant)
  /\ FailingChecks(call.warrant, call) = {61, 65, 70, 76, 78, 88}
  /\ decision.reason = "Warrant issued in the future (clock skew)."

\* The Decision the call just made would have got at clock value t.
DecisionAt(t) ==
  verify_warrant(call.warrant, call.issuer_pubkey_b64, call.expected_bundle_sha256,
                 call.observed_repo, call.observed_commit_sha, call.max_ttl_seconds, t)

\* C6: a warrant whose expires_at equals the verifier's now is rejected with
\* 'Warrant expired.'; the same warrant one second earlier, and any warrant
\* one second before its expires_at, is not rejected by the expiry check.
C6_ExpiryBoundary ==
  (call.made /\ AlgOk(call.warrant) /\ TimesOk(call.warrant)) =>
    /\ ExpiresAt(call.warrant) = call.now =>
         /\ ~decision.ok /\ decision.reason = "Warrant expired."
         /\ call.now >= TicksPerSec =>
              DecisionAt(call.now - TicksPerSec).reason # "Warrant expired."
    /\ ExpiresAt(call.warrant) = call.now + TicksPerSec =>
         decision.reason # "Warrant expired."

\* An unchanged minted warrant rejected as expired at exactly expires_at, which
\* the same call accepts one second earlier.
C6_Witness ==
  /\ Intact /\ ExpiresAt(call.warrant) = call.now
  /\ decision.reason = "Warrant expired."
  /\ call.now >= TicksPerSec /\ DecisionAt(call.now - TicksPerSec).ok

\* C7: a warrant minted with ttl_seconds = max_ttl_seconds + 1, verified
\* unexpired and not before it was issued, is rejected as TTL too long; a
\* warrant whose lifetime equals max_ttl_seconds is not rejected by the TTL
\* check.
C7_TtlEnforcement ==
  /\ ( /\ Intact
       /\ mint.ttl_seconds = call.max_ttl_seconds + 1
       /\ IssuedAt(call.warrant) <= call.now /\ call.now < ExpiresAt(call.warrant) )
     => ( /\ ~decision.ok /\ decision.line = 65
          /\ decision.reason = "TTL too long: " \o ToString(mint.ttl_seconds) \o ".0s > "
                                 \o ToString(call.max_ttl_seconds) \o "s" )
  /\ ( /\ call.made /\ AlgOk(call.warrant) /\ TimesOk(call.warrant)
       /\ ExpiresAt(call.warrant) - IssuedAt(call.warrant)
            = call.max_ttl_seconds * TicksPerSec )
     => decision.line # 65

\* Both halves: a minted warrant one second over the limit, rejected; and (in
\* the second conjunct) the limit itself is a lifetime the Issuer produces.
C7_Witness ==
  /\ Intact /\ mint.ttl_seconds = call.max_ttl_seconds + 1
  /\ IssuedAt(call.warrant) <= call.now /\ call.now < ExpiresAt(call.warrant)
  /\ decision.line = 65
  /\ decision.reason = "TTL too long: " \o ToString(mint.ttl_seconds) \o ".0s > " \o ToString(call.max_ttl_seconds) \o "s"

\* A warrant whose lifetime is exactly max_ttl_seconds, accepted.
C7_WitnessAtLimit ==
  /\ Intact /\ mint.ttl_seconds = call.max_ttl_seconds /\ decision.ok

\* The premises C8 states: validly signed, unexpired, policy hash and repo
\* match, observed commit differs from claims.commit_sha even ignoring case.
CommitAloneDiffers ==
  /\ call.made /\ AlgOk(call.warrant) /\ TimesOk(call.warrant)
  /\ call.now < ExpiresAt(call.warrant)
  /\ Field2(call.warrant, "policy", "bundle_sha256") # Str("")
  /\ EqualIgnoringCase(Field2(call.warrant, "policy", "bundle_sha256"),
                       call.expected_bundle_sha256)
  /\ EqualIgnoringCase(Field2(call.warrant, "claims", "repo"), call.observed_repo)
  /\ IsText(Field2(call.warrant, "claims", "commit_sha"))
  /\ ~EqualIgnoringCase(Field2(call.warrant, "claims", "commit_sha"),
                        call.observed_commit_sha)
  /\ SignatureOk(call.warrant, call.issuer_pubkey_b64)

\* C8 as stated: such a call yields ok=false with the commit-mismatch reason.
C8_CommitMismatchReported ==
  CommitAloneDiffers => (~decision.ok /\ decision.reason = "Commit claim mismatch.")

\* C8 as amended: it does so when the warrant also passes the other two
\* temporal checks (issued_at <= now, lifetime <= max_ttl_seconds); ok is
\* false in every case.
C8_CommitMismatchAfterTemporalChecks ==
  CommitAloneDiffers =>
    /\ ~decision.ok
    /\ ( /\ IssuedAt(call.warrant) <= call.now
         /\ ExpiresAt(call.warrant) - IssuedAt(call.warrant)
              <= call.max_ttl_seconds * TicksPerSec )
       => decision.reason = "Commit claim mismatch."

\* The scenario of the spec: an intact warrant verified against cafef00d.
C8_Witness ==
  /\ CommitAloneDiffers /\ Intact
  /\ call.observed_commit_sha = Str("cafef00d")
  /\ ~decision.ok /\ decision.reason = "Commit claim mismatch."

\* The arguments that differ from v in letter case at most.
CaseVariants(v) ==
  {x \in BundleHashes \cup Repos \cup Commits : Lower(x.str) = Lower(v.str)}

\* C9: the Decision is the same for every respelling of the three compared
\* arguments in another letter case, and a warrant field that equals its
\* argument ignoring case is not rejected by that comparison.
C9_CaseInsensitiveBinding ==
  call.made =>
    /\ \A b \in CaseVariants(call.expected_bundle_sha256),
          r \in CaseVariants(call.observed_repo),
          c \in CaseVariants(call.observed_commit_sha) :
         <<b, r, c>> # <<call.expected_bundle_sha256, call.observed_repo,
                         call.observed_commit_sha>>
         => verify_warrant(call.warrant, call.issuer_pubkey_b64, b, r, c,
                           call.max_ttl_seconds, call.now) = decision
    /\ ( /\ Field2(call.warrant, "policy", "bundle_sha256") # Str("")
         /\ EqualIgnoringCase(Field2(call.warrant, "policy", "bundle_sha256"),
                              call.expected_bundle_sha256) )
       => decision.line # 70
    /\ EqualIgnoringCase(Field2(call.warrant, "claims", "repo"), call.observed_repo)
       => decision.line # 76
    /\ EqualIgnoringCase(Field2(call.warrant, "claims", "commit_sha"),
                         call.observed_commit_sha)
       => decision.line # 78

\* Upper case in the warrant against lower case in the argument, and the
\* other way round, both passing the three comparisons.
C9_Witness ==
  /\ call.made
  /\ Field2(call.warrant, "policy", "bundle_sha256") = Str("ABC123")
  /\ call.expected_bundle_sha256 = Str("abc123")
  /\ Field2(call.warrant, "claims", "repo") = Str("org/repo")
  /\ call.observed_repo = Str("ORG/REPO")
  /\ call.observed_commit_sha = Str("DEADBEEF")
  /\ decision.line = 88

\* The algorithm check and the three temporal checks pass.
PassesTemporalStage(w, c) ==
  /\ AlgOk(w) /\ TimesOk(w)
  /\ IssuedAt(w) <= c.now /\ c.now < ExpiresAt(w)
  /\ ExpiresAt(w) - IssuedAt(w) <= c.max_ttl_seconds * TicksPerSec

PolicyReason == "Policy bundle hash mismatch (pinning failed)."

C11_IssuedInFutureBoundary ==
  (call.made /\ AlgOk(call.warrant) /\ TimesOk(call.warrant)
     /\ call.now < ExpiresAt(call.warrant)) =>
    /\ IssuedAt(call.warrant) > call.now =>
         /\ ~decision.ok /\ decision.line = 61
         /\ decision.reason = "Warrant issued in the future (clock skew)."
    /\ IssuedAt(call.warrant) = call.now => decision.line # 61

\* issued_at one tick (less than a second) after now: rejected, and the same
\* call made one tick later, when issued_at = now, is not rejected by this check.
C11_Witness ==
  /\ call.made /\ AlgOk(call.warrant) /\ TimesOk(call.warrant)
  /\ IssuedAt(call.warrant) = call.now + 1
  /\ call.now + 1 < ExpiresAt(call.warrant)
  /\ decision.reason = "Warrant issued in the future (clock skew)."
  /\ DecisionAt(call.now + 1).line \notin {59, 61}

\* The key identifiers under which the Issuer's key is provisioned: the
\* values WARRANT_PUBLIC_KEY_ID takes in the environments of the model.
KnownKeyIds == {Str(e.WARRANT_PUBLIC_KEY_ID) : e \in FullEnvs}

\* C12: a warrant whose signature.public_key_id names a key identifier that
\* is not provisioned is rejected (a negative Decision, no exception), with a
\* reason other than the one a bad signature gets.
C12_UnknownKeyRejected ==
  ( /\ call.made /\ IsObj(call.warrant)
    /\ IsText(Field2(call.warrant, "signature", "public_key_id"))
    /\ Field2(call.warrant, "signature", "public_key_id") \notin KnownKeyIds )
  => (~decision.escaped /\ ~decision.ok /\ decision.reason # BadSignature)

\* What the code does with such a warrant: public_key_id is never read, so an
\* otherwise intact warrant naming an unknown key is accepted.
C12_UnknownKeyAccepted ==
  /\ call.made /\ mint.exit = "ok"
  /\ tamper = << <<"signature", "public_key_id">> >>
  /\ Field2(call.warrant, "signature", "public_key_id") = Str("k2")
  /\ decision.ok /\ decision.reason = "OK"

\* C13: a Decision with ok=true carries the SHA-256 hex digest of the canonical
\* encoding of the verified warrant without its signature field, which for a
\* warrant of the Issuer verified under the Issuer's key is the value the
\* Issuer printed as warrant_payload_sha256; a Decision with ok=false carries
\* no payload hash.
C13_PayloadHash ==
  call.made =>
    /\ decision.ok =>
         decision.payload_sha256
           = Str(_sha256_hex(JsonDumps(Obj(Pop(call.warrant.obj, "signature")))))
    /\ (decision.ok /\ mint.exit = "ok" /\ call.issuer_pubkey_b64 = IssuerKey) =>
         decision.payload_sha256 = Str(mint.payload_sha256)
    /\ ~decision.ok => decision.payload_sha256 = Null

\* A warrant whose signature field was changed after minting, accepted, with
\* the hash the Issuer printed.
C13_Witness ==
  /\ call.made /\ decision.ok /\ mint.exit = "ok"
  /\ call.warrant # mint.warrant
  /\ decision.payload_sha256 = Str(mint.payload_sha256)

\* A record without its signature field.
SignedPart(w) == Obj(Pop(w.obj, "signature"))

\* C14: two warrants that differ only in their signature field (its alg,
\* public_key_id, sig_b64, or its absence) have the same canonical encoding
\* and payload hash, and a change of any other top-level or nested field
\* changes the encoding.
C14_SignatureCoverage ==
  (mint.exit = "ok" /\ IsObj(warrant)) =>
    /\ SignedPart(warrant) = SignedPart(mint.warrant) =>
         /\ _canonical_payload(warrant) = canonical_payload(mint.warrant)
         /\ _sha256_hex(_canonical_payload(warrant)) = mint.payload_sha256
    /\ SignedPart(warrant) # SignedPart(mint.warrant) =>
         /\ _canonical_payload(warrant) # canonical_payload(mint.warrant)
         /\ _sha256_hex(_canonical_payload(warrant)) # mint.payload_sha256

\* A minted warrant that lost its signature field on the way: same encoding,
\* same hash.
C14_Witness ==
  /\ mint.exit = "ok" /\ IsObj(warrant)
  /\ "signature" \in DOMAIN mint.warrant.obj /\ "signature" \notin DOMAIN warrant.obj
  /\ _canonical_payload(warrant) = canonical_payload(mint.warrant)
  /\ _sha256_hex(_canonical_payload(warrant)) = mint.payload_sha256

\* Further single changes of a record, compared by the encoder only: a number
\* written as a string, a nested number, null, an empty object.
EncoderVariants ==
  {<<<<"policy", "bundle_sha256">>, v>> : v \in {Str("1"), Null, Arr(<<Num(1)>>), Arr(<<Str("1")>>)}}
    \cup {<<<<"policy">>, v>> : v \in {EmptyDict, Arr(<<>>), Str("{}"), Str("")}}
    \cup {<<<<"scope", "permissions_intent">>, v>> :
            v \in {Str("out:write"), Arr(<<Str("OUT:WRITE")>>), Arr(<<Arr(<<Str("out:write")>>)>>),
                   Arr(<<Str("out:write"), Str("out:write")>>)}}

\* C15: two records that differ in the value of a field other than signature
\* (the order of the elements of scope.permissions_intent, the letter case of
\* a string, the type or formatting of a nested value included) have
\* different canonical encodings. The records are the one in transit and
\* every single change of the minted one.
C15_EncoderInjective ==
  (mint.exit = "ok" /\ IsObj(warrant)) =>
    LET payload == _canonical_payload(warrant)
    IN \A m \in Mutations(mint.warrant) \cup EncoderVariants :
         (Len(m[1]) > 0 /\ Applicable(mint.warrant, m[1])) =>
           LET r == Mutate(mint.warrant, m[1], m[2])
           IN SignedPart(r) # SignedPart(warrant) => _canonical_payload(r) # payload

\* The record in transit has the one intent 'out:write","admin', which read
\* without its escapes is the list of the two intents out:write and admin.
C15_Witness ==
  /\ mint.exit = "ok" /\ IsObj(warrant)
  /\ Field2(warrant, "scope", "permissions_intent") = Arr(<<Str("out:write\",\"admin")>>)
  /\ _canonical_payload(warrant)
       # _canonical_payload(Mutate(mint.warrant, <<"scope", "permissions_intent">>,
                                  Arr(<<Str("out:write"), Str("admin")>>)))

\* C16: every warrant the Issuer emits has expires_at - issued_at equal to
\* exactly the configured ttl in whole seconds, whatever fraction of a second
\* the clock showed, so expires_at > issued_at whenever ttl > 0.
C16_IssuerLifetime ==
  mint.exit = "ok" =>
    /\ TimesOk(mint.warrant)
    /\ ExpiresAt(mint.warrant) - IssuedAt(mint.warrant) = mint.ttl_seconds * TicksPerSec
    /\ IssuedAt(mint.warrant) % TicksPerSec = 0
    /\ mint.ttl_seconds > 0 => ExpiresAt(mint.warrant) > IssuedAt(mint.warrant)

\* A warrant minted with the longest TTL, not at the first instant.
C16_Witness ==
  /\ mint.exit = "ok" /\ mint.ttl_seconds = MaxTtl
  /\ IssuedAt(mint.warrant) > 0
  /\ ExpiresAt(mint.warrant) = IssuedAt(mint.warrant) + MaxTtl * TicksPerSec

\* A field of an emitted warrant that is a non-empty string.
NonEmpty(v) == IsText(v) /\ v.str # ""

\* C17: a run of the Issuer that lacks a required input (agent name, policy
\* bundle hash, repo, commit; empty or blank counts as lacking) emits no
\* warrant, so every warrant emitted has non-empty scope.target,
\* policy.bundle_sha256, claims.repo and claims.commit_sha.
C17_IssuerCompleteness ==
  /\ mint.exit # "ok" => mint.warrant = Null
  /\ mint.exit = "ok" =>
       /\ NonEmpty(Field2(mint.warrant, "scope", "target"))
       /\ NonEmpty(Field2(mint.warrant, "policy", "bundle_sha256"))
       /\ NonEmpty(Field2(mint.warrant, "claims", "repo"))
       /\ NonEmpty(Field2(mint.warrant, "claims", "commit_sha"))

\* What the code does when TV_POLICY_BUNDLE_SHA256 is set to an empty string:
\* a signed warrant with an empty bundle hash.
C17_EmptyBundleEmitted ==
  /\ mint.exit = "ok"
  /\ Field2(mint.warrant, "policy", "bundle_sha256") = Str("")
  /\ IsObj(Field1(mint.warrant, "signature"))

\* C18: over any sequence of mints no two emitted warrants share a
\* warrant_id, mints within one second for the same run and agent and mints
\* with a supplied WARRANT_ID included.
C18_WarrantIdsUnique ==
  \A i, j \in DOMAIN emitted : i # j => emitted[i] # emitted[j]

\* What the code does: two runs within one second, for the same run
\* identifier and agent and without WARRANT_ID, print the same default id.
C18_SameDefaultId ==
  /\ Len(emitted) = 2 /\ emitted[1] = emitted[2]
  /\ emitted[1] = Str(ToString(now \div TicksPerSec) \o "-42-GrantFinder-001")

\* C19 as stated: the call just made returns the same Decision at whatever
\* instant it is made with the same warrant and arguments, so that a failed
\* verification fails again when retried.
C19_SameDecisionWhenever ==
  call.made => \A t \in 0..MaxClock : DecisionAt(t) = decision

\* The two instants stand in the same relation to the warrant's timestamps:
\* both before issued_at or neither, both at or after expires_at or neither.
SameWindow(w, t1, t2) ==
  (AlgOk(w) /\ TimesOk(w)) =>
    /\ (ExpiresAt(w) <= t1) <=> (ExpiresAt(w) <= t2)
    /\ (IssuedAt(w) > t1) <=> (IssuedAt(w) > t2)

\* C19 as amended: the same inputs get the same Decision at every later
\* instant that stands in the same relation to issued_at and expires_at; and
\* a verification that failed for another reason than issued-in-future fails
\* again at every later instant.
C19_SameDecisionInSameWindow ==
  call.made =>
    \A t \in (call.now + 1)..MaxClock :
      /\ SameWindow(call.warrant, call.now, t) => DecisionAt(t) = decision
      /\ (~decision.ok /\ decision.line # 61) => ~DecisionAt(t).ok

\* An accepted warrant that the same call accepts again a tick later and
\* rejects as expired later still.
C19_Witness ==
  /\ call.made /\ decision.ok
  /\ call.now + 1 < ExpiresAt(call.warrant)
  /\ DecisionAt(call.now + 1) = decision
  /\ ExpiresAt(call.warrant) <= MaxClock
  /\ DecisionAt(ExpiresAt(call.warrant)).reason = "Warrant expired."

\* C20: the expired check and the issued-in-future check of a call compare
\* against the one clock value the call read: the call is rejected as expired
\* exactly when expires_at <= now, and as issued in the future exactly when
\* now < expires_at and issued_at > now, for that same now.
C20_SingleClockRead ==
  (call.made /\ AlgOk(call.warrant) /\ TimesOk(call.warrant)) =>
    /\ decision.line = 59 <=> ExpiresAt(call.warrant) <= call.now
    /\ decision.line = 61 <=> /\ call.now < ExpiresAt(call.warrant)
                              /\ IssuedAt(call.warrant) > call.now

\* issued_at lies within a tick after the value read: a second, later read
\* of the clock would have let the warrant pass the issued-in-future check.
C20_Witness ==
  /\ call.made /\ AlgOk(call.warrant) /\ TimesOk(call.warrant)
  /\ call.now < IssuedAt(call.warrant) /\ IssuedAt(call.warrant) <= call.now + 1
  /\ call.now + 1 < ExpiresAt(call.warrant)
  /\ ~decision.ok /\ decision.line = 61

\* ------------------------------------------------------------ claims 21-30
\* C21: a call whose expected_bundle_sha256 is not configured (empty) aborts
\* with a fatal error that leaves verify_warrant, and does not return an
\* ordinary negative Decision.
C21_MisconfigurationIsFatal ==
  (call.made /\ call.expected_bundle_sha256 = Str("")) => decision.escaped

\* What the code does: an intact minted warrant checked against an empty
\* expected hash gets the Decision a warrant with the wrong hash gets.
C21_MisconfigurationIsDeny ==
  /\ Intact /\ call.expected_bundle_sha256 = Str("")
  /\ PassesTemporalStage(call.warrant, call)
  /\ ~decision.escaped /\ ~decision.ok /\ decision.reason = PolicyReason

\* ------------------------------------------------------------- agent gate
\* src/agent_runner.py: run_agent and the gate in front of every agent.

\* The keys of AGENTS.
AGENTS ==
  {"BookWriter-001", "SocialMedia-001", "GrantFinder-001", "DevOpsGuardian-001",
   "Indexer-Harvest-001", "Indexer-Timeline-001", "Indexer-Multiverse-001",
   "Indexer-Ethics-001", "Indexer-Gaps-001", "Indexer-Spine-001"}

\* The names run_agent is called with.
AgentNames == AGENTS \cup {"Nobody-001"}

\* The values of STEGID_VERIFIED_RECEIPT_JSON ("" stands for unset).
ReceiptTexts ==
  {"", " ", "{not json", "null", "{}", "[1]", "{\"kid\":\"k1\"}",
   "{\"issuer\":\"local\"}", "{\"issuer\":\"stegid\"}",
   "{\"issuer\":\"Local\",\"kid\":\"k1\"}"}

\* The contents of public_keys/keys.json, or of STEGID_PUBLIC_KEYS_JSON when
\* the file does not exist ("" stands for neither).
KeyTexts == {"", "{\"k1\":\"abc\"}", "{not json"}

\* The verdicts of stegcore.decide.
Verdicts == {"ALLOW", "DENY", "DEFER"}

\* json.loads on the texts of the model.
json_loads(raw) ==
  CASE raw = "null" -> [ok |-> TRUE, value |-> Null]
    [] raw = "{}" -> [ok |-> TRUE, value |-> EmptyDict]
    [] raw = "[1]" -> [ok |-> TRUE, value |-> Arr(<<Num(1)>>)]
    [] raw = "{\"kid\":\"k1\"}" -> [ok |-> TRUE, value |-> Obj([kid |-> Str("k1")])]
    [] raw = "{\"k1\":\"abc\"}" -> [ok |-> TRUE, value |-> Obj([k1 |-> Str("abc")])]
    [] raw = "{\"issuer\":\"local\"}" ->
         [ok |-> TRUE, value |-> Obj([issuer |-> Str("local")])]
    [] raw = "{\"issuer\":\"stegid\"}" ->
         [ok |-> TRUE, value |-> Obj([issuer |-> Str("stegid")])]
    [] raw = "{\"issuer\":\"Local\",\"kid\":\"k1\"}" ->
         [ok |-> TRUE, value |-> Obj([issuer |-> Str("Local"), kid |-> Str("k1")])]
    [] OTHER -> [ok |-> FALSE, value |-> Null]

\* _load_receipt_from_env: None when the variable is unset, blank or not JSON.
_load_receipt_from_env(env) ==
  LET raw == Strip(env)
  IN IF raw = "" THEN Null
     ELSE IF json_loads(raw).ok THEN json_loads(raw).value ELSE Null

\* What a call returns or raises: `raised` is the class of the exception,
\* "" when the call returned `value`.
Returned(v) == [raised |-> "", msg |-> "", value |-> v]
Raised(class, msg) == [raised |-> class, msg |-> msg, value |-> Null]

\* _load_pubkeys: json.loads of the file or of the variable, {} without both.
_load_pubkeys(keys) ==
  LET raw == Strip(keys)
  IN IF raw = "" THEN Returned(EmptyDict)
     ELSE IF json_loads(raw).ok THEN Returned(json_loads(raw).value)
     ELSE Raised("JSONDecodeError", "Expecting property name")

\* `"stegid" in s` on the lower-cased issuers of the model.
HasStegid(s) == s \in {"stegid", "stegid-prod"}

\* dict.setdefault.
SetDefault(f, k, v) == IF k \in DOMAIN f THEN f ELSE Put(f, k, v)

\* stegid_receipts.verify_receipt(receipt, *, public_keys=None), called with
\* the keyword `keyword`: a keyword the signature does not have is a
\* TypeError before the body runs.
stegid_verify_receipt(receipt, keyword) ==
  IF keyword # "public_keys"
  THEN Raised("TypeError", "verify_receipt() got an unexpected keyword argument")
  ELSE IF ~IsObj(receipt)
  THEN Raised("ReceiptVerificationError", "Receipt must be a dict")
  ELSE LET issuer == IF "issuer" \in DOMAIN receipt.obj THEN receipt.obj.issuer ELSE Str("")
       IN IF Falsy(issuer)
          THEN Raised("ReceiptVerificationError", "Receipt missing issuer")
          ELSE IF ~IsStr(issuer)
          THEN Raised("AttributeError", "object has no attribute 'lower'")
          ELSE IF HasStegid(Lower(issuer.str))
          THEN Raised("ReceiptVerificationError",
                      "StegID receipts are not allowed in StegAgents")
          ELSE Returned(Obj(SetDefault(SetDefault(receipt.obj, "verified", [bool |-> TRUE]),
                                       "verifier", Str("local-stegid-shim"))))

\* Line 82, `ok, reason = verify_receipt(receipt, pubkeys_by_kid=pubkeys)`:
\* the call, then the unpacking of what it returned into two names, which
\* iterates the keys of the dict.
VerifyLine82(receipt) ==
  LET r == stegid_verify_receipt(receipt, "pubkeys_by_kid")
  IN IF r.raised # "" THEN r
     ELSE IF Cardinality(DOMAIN r.value.obj) # 2
     THEN Raised("ValueError", "values to unpack (expected 2)")
     ELSE Returned([ok |-> Str("issuer"), reason |-> Str("verified")])

\* _gate_agent_or_raise(agent_name), lines 76-97, in an environment where
\* the receipt variable holds `env`, the key store `keys`, and decide()
\* answers `verdict`. `verdict` in the result is the verdict the gate
\* obtained, "" when it did not get to ask.
_gate_agent_or_raise(agent_name, env, keys, verdict) ==
  LET receipt == _load_receipt_from_env(env)
      pubkeys == _load_pubkeys(keys)
      pair == VerifyLine82(receipt)
  IN IF Falsy(receipt)
     THEN [raised |-> "StegPermissionError", msg |-> "DENY_NO_RECEIPT", verdict |-> ""]
     ELSE IF pubkeys.raised # ""
     THEN [raised |-> pubkeys.raised, msg |-> pubkeys.msg, verdict |-> ""]
     ELSE IF pair.raised # ""
     THEN [raised |-> pair.raised, msg |-> pair.msg, verdict |-> ""]
     ELSE IF Falsy(pair.value.ok)
     THEN [raised |-> "StegPermissionError",
           msg |-> "DENY_BAD_RECEIPT:" \o pair.value.reason.str, verdict |-> ""]
     ELSE IF verdict # "ALLOW"
     THEN [raised |-> "StegPermissionError", msg |-> verdict \o ":REASON",
           verdict |-> verdict]
     ELSE [raised |-> "", msg |-> "", verdict |-> verdict]

\* _write_denial(agent_name, reason): the record it writes.
_write_denial(agent_name, reason) == [agent_name |-> agent_name, reason |-> reason]
NoDenial == [agent_name |-> "", reason |-> ""]

\* run_agent with the call of fn() moved in front of the return of the
\* except clause: the agent runs although it was denied.
run_agent_Warn(agent_name, env, keys, verdict) ==
  LET g == _gate_agent_or_raise(agent_name, env, keys, verdict)
  IN IF agent_name \notin AGENTS
     THEN [raised |-> "SystemExit", verdict |-> "", denial |-> NoDenial, invoked |-> FALSE]
     ELSE IF g.raised = "StegPermissionError"
     THEN [raised |-> "", verdict |-> g.verdict,
           denial |-> _write_denial(agent_name, g.msg), invoked |-> TRUE]
     ELSE IF g.raised # ""
     THEN [raised |-> g.raised, verdict |-> g.verdict, denial |-> NoDenial,
           invoked |-> FALSE]
     ELSE [raised |-> "", verdict |-> g.verdict, denial |-> NoDenial, invoked |-> TRUE]
\* run_agent(agent_name), lines 294-305: `raised` is the exception that left
\* it, `denial` the record it wrote, `invoked` whether it called fn().
run_agent(agent_name, env, keys, verdict) ==
  LET g == _gate_agent_or_raise(agent_name, env, keys, verdict)
  IN IF agent_name \notin AGENTS
     THEN [raised |-> "SystemExit", verdict |-> "", denial |-> NoDenial, invoked |-> FALSE]
     ELSE IF g.raised = "StegPermissionError"
     THEN [raised |-> "", verdict |-> g.verdict,
           denial |-> _write_denial(agent_name, g.msg), invoked |-> FALSE]
     ELSE IF g.raised # ""
     THEN [raised |-> g.raised, verdict |-> g.verdict, denial |-> NoDenial,
           invoked |-> FALSE]
     ELSE [raised |-> "", verdict |-> g.verdict, denial |-> NoDenial, invoked |-> TRUE]

\* One run of run_agent, from the call to its return or to the exception
\* that leaves it.
RunAgent ==
  \E agent_name \in AgentNames, env \in ReceiptTexts, keys \in KeyTexts, verdict \in Verdicts :
    /\ gate' = [pc |-> "done", agent_name |-> agent_name, env |-> env, keys |-> keys,
                decide |-> verdict, out |-> run_agent(agent_name, env, keys, verdict)]
    /\ UNCHANGED <<now, mint, warrant, tamper, call, decision, emitted, threads, rcpt, llm,
                   harvest>>

NextGate == RunAgent
SpecGate == Init /\ [][NextGate]_vars

\* ------------------------------------------------------------------- C22
\* A finished run of run_agent for a known agent.
GateRun == gate.pc = "done" /\ gate.agent_name \in AGENTS

\* The receipt of the run is missing or unparseable, or the receipt verifier
\* called as its signature asks rejects it.
ReceiptRejected ==
  \/ _load_receipt_from_env(gate.env) = Null
  \/ stegid_verify_receipt(_load_receipt_from_env(gate.env), "public_keys").raised # ""

\* C22 (Gate before execution): in every run of run_agent for a known agent
\* the body of the agent is invoked only after the gate obtained the verdict
\* ALLOW, and when the receipt is missing, unparseable or fails verification,
\* or the verdict is DENY or DEFER, the body is not invoked and a denial
\* record is written. Stated as claimed; the code violates the second half.
C22_GateBeforeExecution ==
  GateRun =>
    /\ gate.out.invoked => gate.out.verdict = "ALLOW"
    /\ (ReceiptRejected \/ gate.out.verdict \in {"DENY", "DEFER"}) =>
         (~gate.out.invoked /\ gate.out.denial # NoDenial)

\* What the code does with a receipt the verifier would reject: the call of
\* line 82 raises TypeError, which leaves run_agent, and no denial is written.
C22_RejectedWithoutDenial ==
  /\ GateRun /\ gate.env = "{\"issuer\":\"stegid\"}" /\ gate.keys = ""
  /\ gate.out.raised = "TypeError" /\ gate.out.denial = NoDenial /\ ~gate.out.invoked

\* ------------------------------------------------------------------- C23
\* The gate of the run failed: _gate_agent_or_raise raised, whatever the
\* class of the exception.
GateFailed ==
  _gate_agent_or_raise(gate.agent_name, gate.env, gate.keys, gate.decide).raised # ""

\* C23 (Default strict mode): run_agent takes no operating mode, so every run
\* is one in which the caller selected none; in every such run a failure of
\* the gate ends the run without the agent executing: either the denial is
\* written and run_agent returns, or the exception leaves run_agent.
C23_DefaultStrict ==
  (GateRun /\ GateFailed) =>
    /\ ~gate.out.invoked
    /\ gate.out.denial # NoDenial \/ gate.out.raised # ""

\* A run whose gate failed for want of a receipt: denied, agent not executed.
C23_Witness ==
  /\ GateRun /\ GateFailed /\ gate.env = " "
  /\ gate.out.denial = _write_denial(gate.agent_name, "DENY_NO_RECEIPT")
  /\ gate.out.raised = "" /\ ~gate.out.invoked

\* ------------------------------------------------- concurrent verification
\* Calls of verify_warrant running in threads that were handed the same
\* record: the variable `warrant` is that one dict, and a thread runs from
\* one read of it to the next in one step.

\* The arguments of the concurrent calls: the verifier's own configuration,
\* the same with an attacker's key, and the same with another bundle hash.
ThreadArguments ==
  {a \in CallArguments :
     /\ a.repo = Str("org/repo") /\ a.commit = Str("deadbeef")
     /\ \/ a.bundle = Str("abc123") /\ a.key \in {B64(KeyBytes("pk_issuer")), B64(KeyBytes("pk_attacker"))}
        \/ a.bundle = Str("def456") /\ a.key = B64(KeyBytes("pk_issuer"))}

\* _canonical_payload popping "signature" from the dict it was given
\* (`w = warrant` for `w = dict(warrant)`).
AfterCanonicalPayload_InPlace(w) == Obj(Pop(w.obj, "signature"))
\* Lines 24-25: the caller's dict after _canonical_payload(warrant) ran;
\* "signature" is popped from the copy `w = dict(warrant)`, not from it.
AfterCanonicalPayload(w) == w

AllIdle == \A t \in Threads : threads[t].pc = "idle"

\* Another call is between its first and its last read of the record.
OthersRunning(t) == \E u \in Threads \ {t} : threads[u].pc \in {"line54", "line80"}

\* The thread's result at the line it has come to; `overlapped` records that
\* the call ended while another was running.
Finished(t, a, passed, clock, r) ==
  [threads EXCEPT ![t] = [pc |-> "done", a |-> a, passed |-> passed, clock |-> clock,
                          decision |-> Except(r), overlapped |-> OthersRunning(t)]]

\* Lines 49-52 of a new call: `sig` is bound to the record's signature, the
\* algorithm is checked.
Begin(t) ==
  /\ threads[t].pc = "idle"
  /\ \E a \in ThreadArguments :
       LET r == VerifyBody(warrant, a.key, a.bundle, a.repo, a.commit, a.max_ttl, now)
       IN threads' =
            IF r.line <= 52 THEN Finished(t, a, warrant, now, r)
            ELSE [threads EXCEPT ![t] =
                    [pc |-> "line54", a |-> a, passed |-> warrant,
                     sig |-> Or(Get(warrant, "signature"), EmptyDict)]]
  /\ UNCHANGED <<now, mint, warrant, tamper, call, decision, emitted, gate, rcpt, llm, harvest>>

\* Lines 54-78: the timestamps, the clock, the policy and the claims are read
\* from the record.
Line54(t) ==
  /\ threads[t].pc = "line54"
  /\ LET th == threads[t]
         r == VerifyTimes(warrant, th.sig, th.a.key, th.a.bundle, th.a.repo, th.a.commit,
                          th.a.max_ttl, now)
     IN threads' =
          IF r.line < 80 THEN Finished(t, th.a, th.passed, now, r)
          ELSE [threads EXCEPT ![t] = [pc |-> "line80", a |-> th.a, passed |-> th.passed,
                                       sig |-> th.sig, clock |-> now]]
  /\ UNCHANGED <<now, mint, warrant, tamper, call, decision, emitted, gate, rcpt, llm, harvest>>

\* Lines 80-90: the payload is encoded from the record and the signature
\* bound at line 49 is verified over it.
Line80(t) ==
  /\ threads[t].pc = "line80"
  /\ LET th == threads[t]
     IN threads' = Finished(t, th.a, th.passed, th.clock,
                            VerifySignature(warrant, th.sig, th.a.key))
  /\ warrant' = AfterCanonicalPayload(warrant)
  /\ UNCHANGED <<now, mint, tamper, call, decision, emitted, gate, rcpt, llm, harvest>>

\* The caller takes the Decision; the thread is free for another call.
Return(t) ==
  /\ threads[t].pc = "done"
  /\ threads' = [threads EXCEPT ![t] = [pc |-> "idle"]]
  /\ UNCHANGED <<now, mint, warrant, tamper, call, decision, emitted, gate, rcpt, llm, harvest>>

\* The Issuer prints the record before any thread is handed it.
MintShared == AllIdle /\ Mint

\* The channel changes the record before any thread is handed it.
TamperShared == AllIdle /\ Tamper

NextConcurrent ==
  \/ MintShared
  \/ TamperShared
  \/ \E t \in Threads : Begin(t) \/ Line54(t) \/ Line80(t) \/ Return(t)
SpecConcurrent == Init /\ [][NextConcurrent]_vars

\* ------------------------------------------------------------------- C24
\* The Decision the call of thread t would return run alone: verify_warrant
\* on the record as it was handed over, with the call's arguments and clock.
Alone(th) ==
  verify_warrant(th.passed, th.a.key, th.a.bundle, th.a.repo, th.a.commit, th.a.max_ttl,
                 th.clock)

DecisionsAsAlone ==
  \A t \in Threads : threads[t].pc = "done" => threads[t].decision = Alone(threads[t])

\* A step of a call leaves the shared record as it was.
NoSharedWrite == threads' # threads => warrant' = warrant

\* C24 (Concurrent verification): however the calls of verify_warrant that
\* share one warrant record interleave, each returns the Decision it would
\* return run alone, and no step of a call writes the record the others read.
C24_ConcurrentVerification == []DecisionsAsAlone /\ [][NoSharedWrite]_vars

\* Two calls overlapped on a signed record and came to different Decisions:
\* one accepted it, the other, given the attacker's key, rejected it.
C24_Witness ==
  /\ threads[1].pc = "done" /\ threads[2].pc = "done"
  /\ threads[1].overlapped
  /\ threads[1].passed = warrant /\ threads[2].passed = warrant
  /\ threads[1].decision.ok
  /\ ~threads[2].decision.ok /\ threads[2].decision.line = 88

\* ------------------------------------------------------- receipt_verify.py
Bool(b) == [bool |-> b]

\* An object whose __str__ raises: the one kind of issuer on which a
\* statement of the try block fails.
Unprintable == [unprintable |-> TRUE]

\* The values of "issuer" (Absent: the key is missing).
Issuers ==
  {Absent, Str(""), Str("local"), Str("Local"), Str("LOCAL"), Str("stegid"),
   Str("StegID-prod"), Null, Num(0), Num(1), Bool(TRUE), Bool(FALSE),
   Arr(<<Str("local")>>), Unprintable}

\* The dicts verify_receipt is called with.
ReceiptDicts ==
  {Obj(SetKey(SetKey(SetKey(SetKey(<<>>, "issuer", i), "verified", v), "verifier", w),
              "kid", k)) :
     i \in Issuers, v \in {Absent, Bool(TRUE), Bool(FALSE)},
     w \in {Absent, Str("ci")}, k \in {Absent, Str("k1")}}

\* Every input: the dicts, and values that are no dict.
Receipts == ReceiptDicts \cup {Null, Str("local"), Num(1), Arr(<<Str("local")>>)}

\* bool(v) is False.
NotTruthy(v) == Falsy(v) \/ v = Bool(FALSE)

\* str(v) on the issuers of the model; an exception for Unprintable.
PyStr(v) ==
  CASE "str" \in DOMAIN v -> Returned(v.str)
    [] "num" \in DOMAIN v -> Returned(ToString(v.num))
    [] "bool" \in DOMAIN v -> Returned(IF v.bool THEN "True" ELSE "False")
    [] "arr" \in DOMAIN v -> Returned("['local']")
    [] "null" \in DOMAIN v -> Returned("None")
    [] OTHER -> Raised("TypeError", "__str__ returned non-string")

\* Line 29 comparing without lower().
NotLocal_CaseSensitive(text) == text # "local"
\* Line 29: `str(issuer).lower() != "local"`.
NotLocal(text) == Lower(text) # "local"

\* Lines 21-35: the body of the try block.
ReceiptBody(receipt) ==
  IF ~IsObj(receipt)
  THEN Returned(Obj([ok |-> Bool(FALSE), error |-> Str("Receipt must be a dict")]))
  ELSE LET issuer == IF "issuer" \in DOMAIN receipt.obj THEN receipt.obj.issuer ELSE Str("")
       IN IF NotTruthy(issuer)
          THEN Returned(Obj([ok |-> Bool(FALSE), error |-> Str("Receipt missing issuer")]))
          ELSE IF PyStr(issuer).raised # "" THEN PyStr(issuer)
          ELSE IF NotLocal(PyStr(issuer).value)
          THEN Returned(Obj([ok |-> Bool(FALSE),
                             error |-> Str("Only local receipts are accepted in this repo")]))
          ELSE Returned(Obj([ok |-> Bool(TRUE),
                 receipt |-> Obj(SetDefault(SetDefault(receipt.obj, "verified", Bool(TRUE)),
                                            "verifier", Str("local-receipt")))]))

\* receipt_verify.verify_receipt(receipt), lines 20-37: the body, and the
\* except clause that turns what it raised into a negative result.
verify_receipt(receipt) ==
  LET r == ReceiptBody(receipt)
  IN IF r.raised = "" THEN r
     ELSE Returned(Obj([ok |-> Bool(FALSE),
            error |-> Str("Receipt verification error: " \o r.raised \o ": " \o r.msg)]))

\* One call of verify_receipt.
VerifyReceipt ==
  /\ \E receipt \in Receipts :
       rcpt' = [pc |-> "done", receipt |-> receipt, result |-> verify_receipt(receipt)]
  /\ UNCHANGED <<now, mint, warrant, tamper, call, decision, emitted, threads, gate, llm, harvest>>

NextReceipt == VerifyReceipt
SpecReceipt == Init /\ [][NextReceipt]_vars

\* ------------------------------------------------------------------- C25
\* The input is a dict whose issuer is a non-empty string equal to "local"
\* when case is ignored.
LocalIssuer(receipt) ==
  /\ IsObj(receipt) /\ "issuer" \in DOMAIN receipt.obj
  /\ receipt.obj.issuer \in {Str("local"), Str("Local"), Str("LOCAL")}

\* C25 (Local receipt verifier result): whatever it is given, verify_receipt
\* of receipt_verify.py raises nothing and returns a dict with the key "ok";
\* ok is True exactly when the input is a dict whose issuer is non-empty and
\* equals "local" ignoring case, and every other result is ok False with an
\* "error".
C25_LocalReceiptResult ==
  rcpt.pc = "done" =>
    /\ rcpt.result.raised = ""
    /\ IsObj(rcpt.result.value) /\ "ok" \in DOMAIN rcpt.result.value.obj
    /\ rcpt.result.value.obj.ok = Bool(LocalIssuer(rcpt.receipt))
    /\ ~LocalIssuer(rcpt.receipt) =>
         /\ DOMAIN rcpt.result.value.obj = {"ok", "error"}
         /\ rcpt.result.value.obj.ok = Bool(FALSE)

\* A receipt issued by "LOCAL" was accepted, with the defaults filled in.
C25_Witness ==
  /\ rcpt.pc = "done"
  /\ rcpt.receipt = Obj([issuer |-> Str("LOCAL")])
  /\ rcpt.result.value.obj.ok = Bool(TRUE)
  /\ rcpt.result.value.obj.receipt.obj.verifier = Str("local-receipt")

\* ------------------------------------------------------------ llm_client.py
\* The status codes the API answers with.
Statuses == {200, 400, 401, 404, 429, 500, 501, 502, 503, 504, 529}

\* The bodies of a 200 response: a completion, a JSON object without
\* "choices", one with an empty list of choices, one whose "choices" is
\* null, and a body that is not JSON.
Bodies == {"content", "no_choices", "empty_choices", "null_choices", "not_json"}

\* The Retry-After header: absent, seconds, an HTTP date, a negative number.
RetryAfters == {"", "2", "Wed, 21 Oct 2026 07:28:00 GMT", "-1"}

\* What one requests.post brings: a response, or a network-level exception.
Events ==
  {[kind |-> "network", status |-> 0, body |-> "", retry_after |-> ""]}
    \cup [kind : {"response"}, status : {200}, body : Bodies, retry_after : {""}]
    \cup [kind : {"response"}, status : Statuses \ {200}, body : {"error"},
          retry_after : RetryAfters]

NoEvent == [kind |-> "none", status |-> 0, body |-> "", retry_after |-> ""]

\* The class of what response.json() raises on a body that is not JSON:
\* requests.exceptions.JSONDecodeError, a RequestException, in the versions
\* of requests that have it, and a plain ValueError in the others.
JsonErrors == {"RequestException", "ValueError"}

\* Line 98: the statuses that are retried.
Retryable(status) == status \in {429, 500, 502, 503, 504}

\* Lines 100-107 and 121: the delay is negative, so that time.sleep raises.
NegativeDelay(retry_after) == retry_after = "-1"

\* call_llm still running, about to sleep and loop.
Continue(l, ev) ==
  [pc |-> "running", max_retries |-> l.max_retries, attempt |-> l.attempt + 1,
   requests |-> l.requests + 1, last |-> ev, out |-> Returned(Null)]

\* call_llm ended by the result or the exception `out`.
Ended(l, ev, out) ==
  [pc |-> "done", max_retries |-> l.max_retries, attempt |-> l.attempt + 1,
   requests |-> l.requests + 1, last |-> ev, out |-> out]

\* Lines 132-144: the handler of requests.RequestException.
NetworkError(l, ev) ==
  IF l.attempt + 1 >= l.max_retries
  THEN Ended(l, ev, Raised("RuntimeError", "Exceeded max_retries due to network errors"))
  ELSE Continue(l, ev)

\* Lines 85-95: a 200 response.
Success(l, ev, jsonerr) ==
  CASE ev.body = "content" -> Ended(l, ev, Returned(Str("content")))
    [] ev.body \in {"no_choices", "empty_choices"} ->
         Ended(l, ev, Raised("RuntimeError", "Unexpected response structure from OpenAI"))
    [] ev.body = "null_choices" ->
         Ended(l, ev, Raised("TypeError", "'NoneType' object is not subscriptable"))
    [] OTHER ->
         IF jsonerr = "RequestException" THEN NetworkError(l, ev)
         ELSE Ended(l, ev, Raised("ValueError", "Expecting value"))

\* Lines 98-124: a status that is retried.
Transient(l, ev) ==
  IF l.attempt + 1 >= l.max_retries
  THEN Ended(l, ev, Raised("RuntimeError", "Exceeded max_retries for transient error"))
  ELSE IF NegativeDelay(ev.retry_after)
  THEN Ended(l, ev, Raised("ValueError", "sleep length must be non-negative"))
  ELSE Continue(l, ev)

\* Lines 70-144: one pass of the `while True` loop, on what the request
\* brought.
Iteration(l, ev, jsonerr) ==
  IF ev.kind = "network" THEN NetworkError(l, ev)
  ELSE IF ev.status = 200 THEN Success(l, ev, jsonerr)
  ELSE IF Retryable(ev.status) THEN Transient(l, ev)
  ELSE Ended(l, ev, Raised("RuntimeError", "OpenAI API returned status"))

\* Lines 40-67: call_llm is called; without OPENAI_API_KEY it raises before
\* any request.
CallLlm ==
  /\ llm.pc \in {"idle", "done"}
  /\ \E max_retries \in 1..MaxRetries, key \in {"sk-test", ""} :
       llm' = IF key = ""
              THEN [pc |-> "done", max_retries |-> max_retries, attempt |-> 0,
                    requests |-> 0, last |-> NoEvent,
                    out |-> Raised("RuntimeError", "OPENAI_API_KEY not set in environment")]
              ELSE [pc |-> "running", max_retries |-> max_retries, attempt |-> 0,
                    requests |-> 0, last |-> NoEvent, out |-> Returned(Null)]
  /\ UNCHANGED <<now, mint, warrant, tamper, call, decision, emitted, threads, gate, rcpt, harvest>>

\* One request and what call_llm does with its outcome.
Attempt ==
  /\ llm.pc = "running"
  /\ \E ev \in Events, jsonerr \in JsonErrors : llm' = Iteration(llm, ev, jsonerr)
  /\ UNCHANGED <<now, mint, warrant, tamper, call, decision, emitted, threads, gate, rcpt, harvest>>

NextLlm == CallLlm \/ Attempt
SpecLlm == Init /\ [][NextLlm]_vars

\* ------------------------------------------------------------------- C26
\* The last request brought a response with this status.
Answered(status) == llm.pc # "idle" /\ llm.last.kind = "response" /\ llm.last.status = status

ServerError(status) == status >= 500 /\ status <= 599

\* C26 (LLM retry classes): a response whose status is 429 or any 5xx is
\* retried while attempts remain, and every other status but 200 makes
\* call_llm raise at once. Stated as claimed; the code retries only 429, 500,
\* 502, 503 and 504.
C26_RetryClasses ==
  \A status \in Statuses \ {200} :
    Answered(status) =>
      IF status = 429 \/ ServerError(status)
      THEN llm.attempt < llm.max_retries => llm.pc = "running"
      ELSE llm.pc = "done" /\ llm.out.raised = "RuntimeError"

\* What the code does with a 501 while attempts remain: it raises at once.
C26_NotImplementedNotRetried ==
  /\ Answered(501) /\ llm.attempt < llm.max_retries
  /\ llm.pc = "done" /\ llm.out.raised = "RuntimeError"
  /\ llm.out.msg = "OpenAI API returned status"

\* ------------------------------------------------------------------- C27
\* C27 (Bounded retry and termination): whatever the requests bring and
\* whatever max_retries >= 1 is, call_llm issues at most max_retries
\* requests, loops only while requests remain, and ends either by returning
\* the content of a 200 response or by raising RuntimeError. Stated as
\* claimed; the code lets other exceptions out.
C27_BoundedRetry ==
  llm.pc # "idle" =>
    /\ llm.requests <= llm.max_retries
    /\ llm.pc = "running" => llm.attempt < llm.max_retries
    /\ llm.pc = "done" =>
         \/ llm.out.raised = "RuntimeError"
         \/ /\ llm.out.raised = "" /\ llm.last.kind = "response" /\ llm.last.status = 200
            /\ llm.out.value = Str("content")

\* What the code does with a 200 response whose "choices" is null: the
\* TypeError of the subscript is not caught and leaves call_llm.
C27_TypeErrorEscapes ==
  /\ llm.pc = "done" /\ llm.last.status = 200 /\ llm.last.body = "null_choices"
  /\ llm.out.raised = "TypeError" /\ llm.requests = 1

\* ------------------------------------------------------ indexers/harvester.py
\* The parameters of call_llm (llm_client.py, lines 25-32); `prompt` has no
\* default.
CallLlmParameters ==
  {"prompt", "model", "max_tokens", "temperature", "max_retries", "base_delay_seconds"}

\* A call that takes whatever keywords it is given.
Binds_AnyKeyword(keywords) == TRUE
\* The call of call_llm with these keyword arguments binds: every keyword is
\* a parameter and `prompt` is given. Otherwise the call is a TypeError
\* before the body of call_llm runs.
Binds(keywords) == keywords \subseteq CallLlmParameters /\ "prompt" \in keywords

\* Line 86: `content = call_llm(messages=[...], max_tokens=1400)`, where the
\* API would answer `answer` ("content": a completion, "raise": call_llm
\* raises RuntimeError).
HarvestCall(answer) ==
  IF ~Binds({"messages", "max_tokens"})
  THEN Raised("TypeError", "call_llm() got an unexpected keyword argument 'messages'")
  ELSE IF answer = "raise" THEN Raised("RuntimeError", "Exceeded max_retries")
  ELSE Returned(Str("content"))

\* _iter_new_files: the files of the inbox the state file does not name,
\* sorted.
_iter_new_files(h) == SelectSeq(InboxOrder, LAMBDA f : f \in h.inbox /\ f \notin h.processed)

\* Lines 55-117: the file loop of run number `n` over `files`; acc holds the
\* fragments written, processed_names, and the exception that ended the loop.
RECURSIVE FileLoop(_, _, _, _)
FileLoop(files, n, api, acc) ==
  IF files = <<>> THEN acc
  ELSE LET f == Head(files)
           content == HarvestCall(api[f])
       IN IF content.raised # "" THEN [acc EXCEPT !.raised = content.raised]
          ELSE FileLoop(Tail(files), n, api,
                        [written |-> [acc.written EXCEPT ![f] = @ \cup {n}],
                         processed_names |-> acc.processed_names \cup {f},
                         raised |-> ""])

\* run(), lines 37-124, as run number h.runs + 1: nothing to do without new
\* files; otherwise the loop, and _save_processed only when the loop ended
\* without an exception.
run(h, api) ==
  LET n == h.runs + 1
      new_files == _iter_new_files(h)
      loop == FileLoop(new_files, n, api,
                       [written |-> h.written, processed_names |-> {}, raised |-> ""])
      last == [api |-> api, raised |-> loop.raised, new_files |-> new_files]
  IN IF new_files = <<>>
     THEN [h EXCEPT !.runs = n, !.last = last]
     ELSE IF loop.raised # ""
     THEN [h EXCEPT !.runs = n, !.last = last, !.written = loop.written]
     ELSE [h EXCEPT !.runs = n, !.last = last, !.written = loop.written,
                    !.processed = h.processed \cup loop.processed_names]

\* A file is put into research/inbox.
Drop ==
  /\ \E f \in Files \ harvest.inbox : harvest' = [harvest EXCEPT !.inbox = @ \cup {f}]
  /\ UNCHANGED <<now, mint, warrant, tamper, call, decision, emitted, threads, gate, rcpt, llm>>

\* One run of the harvester, from the scan of the inbox to its return or to
\* the exception that aborts it.
Harvest ==
  /\ harvest.runs < MaxRuns
  /\ \E api \in [Files -> {"content", "raise"}] : harvest' = run(harvest, api)
  /\ UNCHANGED <<now, mint, warrant, tamper, call, decision, emitted, threads, gate, rcpt, llm>>

NextHarvest == Drop \/ Harvest
SpecHarvest == Init /\ [][NextHarvest]_vars

C29_VerificationFrame ==
  \A t \in Threads :
    threads[t].pc = "done" =>
      /\ warrant = threads[t].passed
      /\ (IsObj(threads[t].passed) /\ "signature" \in DOMAIN threads[t].passed.obj) =>
           "signature" \in DOMAIN warrant.obj

\* A call went through the encoding of line 80 and accepted the record, and
\* the record still carries its signature.
C29_Witness ==
  /\ threads[1].pc = "done" /\ threads[1].decision.ok /\ threads[1].decision.line = 90
  /\ warrant = threads[1].passed /\ "signature" \in DOMAIN warrant.obj
  /\ threads[2].pc = "idle"

\* ------------------------------------------------------------------- C30
\* C30 (Encoder agreement): the Issuer's canonical_payload and the Verifier's
\* _canonical_payload give the same bytes for every record, signed, unsigned
\* or changed in transit, so the bytes whose hash the Issuer printed at mint
\* time are the bytes the Verifier computes from the minted record.
C30_EncoderAgreement ==
  /\ IsObj(warrant) => canonical_payload(warrant) = _canonical_payload(warrant)
  /\ mint.exit = "ok" =>
       /\ canonical_payload(mint.warrant) = _canonical_payload(mint.warrant)
       /\ mint.payload_sha256 = _sha256_hex(_canonical_payload(mint.warrant))

\* A signed record, changed in transit, on which both encoders are run; its
\* encoding is not that of the whole record.
C30_Witness ==
  /\ mint.exit = "ok" /\ IsObj(warrant) /\ warrant # mint.warrant
  /\ "signature" \in DOMAIN warrant.obj
  /\ canonical_payload(warrant) = _canonical_payload(warrant)
  /\ _canonical_payload(warrant) # JsonDumps(warrant)

====
